---------------------------- MODULE Spec2Model ----------------------------
(***************************************************************************)
(* A model of the contract primitives of teleport-transactions             *)
(* (src/src/contracts.rs): the contract redeemscript codec, the key        *)
(* tweaks, the maker's sender-contract cache with the two handlers that    *)
(* use it (validate_and_sign_senders_contract_tx, verify_proof_of_funding) *)
(* and the swap-coin variants; of the download of the offers               *)
(* (src/src/offerbook_sync.rs) and of the global settings                  *)
(* (src/src/settings.rs).                                                  *)
(*                                                                         *)
(* Scripts are byte sequences (1-indexed: the Rust slice s[a..b] is        *)
(* SubSeq(s, a + 1, b)).  The secp256k1 group is scaled down to a cyclic   *)
(* group of order CurveOrder; a point is represented by its index in the   *)
(* group, 0 being the point at infinity.                                   *)
(***************************************************************************)
EXTENDS Integers, Sequences, FiniteSets, TLC

VARIABLES
    cache,      \* Wallet.prevout_to_contract_map: outpoint -> script pubkey
    signed,     \* history: the (outpoint, script pubkey) pairs a signature was returned for
    call,       \* the maker's request being answered: its arguments and its result
    coin,       \* a swap-coin (Incoming, Outgoing or WatchOnly)
    coinCall,   \* the last operation on the swap-coin and its result
    codecIn,    \* arguments of create_contract_redeemscript
    codecOut,   \* the script built from codecIn and what the parsers read back
    fnCall,     \* a call of a function of contracts.rs: its arguments and what it returns
    download,   \* the download_maker_offer tasks: address, counter and attempts of each
    offerbook,  \* sync_offerbook_with_addresses: its addresses, channel and result
    settings,   \* the static SETTINGS and the calls made of Settings' functions
    handlers    \* SignSendersContractTx requests handled at the same time on one wallet

vars == <<cache, signed, call, coin, coinCall, codecIn, codecOut, fnCall, download, offerbook,
          settings, handlers>>

----------------------------------------------------------------------------
(* Results: Result<T, E> and Option<T>.                                    *)

Ok(v) == [ok |-> TRUE, val |-> v]
Err(m) == [ok |-> FALSE, err |-> m]
Some(v) == Ok(v)
None == Err("None")
\* a panic of the thread running the call (an arithmetic overflow in a build
\* with overflow checks)
Panic == Err("panic")

Repeat(b, n) == [i \in 1..n |-> b]

----------------------------------------------------------------------------
(* Bounds of the model.                                                    *)

\* the group has order 2 * HalfOrder + 1
HalfOrder == 2
\* the node reports 0..MaxConfirmations confirmations
MaxConfirmations == 1

----------------------------------------------------------------------------
(* Integer widths.                                                         *)

U16Modulus == 65536

----------------------------------------------------------------------------
(* Opcodes (bitcoin::blockdata::opcodes::all).                             *)

OP_PUSHBYTES_0 == 0
OP_PUSHBYTES_75 == 75
OP_PUSHDATA1 == 76
OP_PUSHDATA2 == 77
OP_PUSHDATA4 == 78
OP_PUSHNUM_NEG1 == 79
OP_PUSHNUM_1 == 81
OP_PUSHNUM_2 == 82
OP_PUSHNUM_16 == 96
OP_IF == 99
OP_ELSE == 103
OP_ENDIF == 104
OP_DROP == 117
OP_ROT == 123
OP_SWAP == 124
OP_SIZE == 130
OP_EQUAL == 135
OP_EQUALVERIFY == 136
OP_HASH160 == 169
OP_CHECKSIG == 172
OP_CHECKMULTISIG == 174
OP_CSV == 178

----------------------------------------------------------------------------
(* secp256k1, scaled down: SecretKey, PublicKey, their arithmetic and the  *)
(* 33-byte compressed encoding.                                            *)

CurveOrder == 2 * HalfOrder + 1
\* a SecretKey is a non-zero scalar
SecretKeys == 1..(CurveOrder - 1)
\* a PublicKey is a point other than the point at infinity
PublicKeys == 1..(CurveOrder - 1)

\* secp256k1::PublicKey::from_secret_key: d * G, G being the point of index 2
FromSecretKey(d) == (2 * d) % CurveOrder

\* secp256k1::PublicKey::combine: the sum of two points, an error when it is
\* the point at infinity
Combine(p, q) ==
    LET s == (p + q) % CurveOrder
    IN IF s = 0 THEN Err("InvalidPublicKey") ELSE Ok(s)

\* SecretKey::add_assign: the sum of two scalars, an error when it is zero
AddAssign(d, n) ==
    LET s == (d + n) % CurveOrder
    IN IF s = 0 THEN Err("InvalidTweak") ELSE Ok(s)

\* PublicKey::to_bytes of a compressed key: the parity byte, then the 32
\* bytes of the x coordinate, which a point shares with its negation
XCoordinate(p) == IF p <= HalfOrder THEN p ELSE CurveOrder - p
SerializePublicKey(p) ==
    <<IF p <= HalfOrder THEN 2 ELSE 3>> \o Repeat(XCoordinate(p), 32)

\* PublicKey::from_slice on a 33-byte slice
PublicKeyFromSlice(b) ==
    IF /\ Len(b) = 33
       /\ b[1] \in {2, 3}
       /\ b[2] \in 1..HalfOrder
       /\ \A i \in 3..33 : b[i] = b[2]
    THEN Ok(IF b[1] = 2 THEN b[2] ELSE CurveOrder - b[2])
    ELSE Err("pubkey error")

----------------------------------------------------------------------------
(* bitcoin::blockdata::script::Builder and Script::instructions.           *)

PushOpcode(s, op) == Append(s, op)

\* Builder::push_slice, for data shorter than 2^16 bytes
PushSlice(s, data) ==
    LET n == Len(data)
    IN IF n < OP_PUSHDATA1 THEN s \o <<n>> \o data
       ELSE IF n < 256 THEN s \o <<OP_PUSHDATA1, n>> \o data
       ELSE s \o <<OP_PUSHDATA2, n % 256, n \div 256>> \o data

\* script::build_scriptint of a positive number: little-endian, with one more
\* byte when the top bit of the last byte is set
RECURSIVE BuildScriptint(_)
BuildScriptint(n) ==
    IF n > 255 THEN <<n % 256>> \o BuildScriptint(n \div 256)
    ELSE IF n >= 128 THEN <<n, 0>>
    ELSE <<n>>

\* Builder::push_int of a number that is not negative
PushInt(s, n) ==
    IF n >= 1 /\ n <= 16 THEN PushOpcode(s, n - 1 + OP_PUSHNUM_1)
    ELSE IF n = 0 THEN PushOpcode(s, OP_PUSHBYTES_0)
    ELSE PushSlice(s, BuildScriptint(n))

\* Builder::push_key of a compressed key
PushKey(s, p) == PushSlice(s, SerializePublicKey(p))

\* One instruction: kind is "push" (data), "op" (code) or "err"
PushBytes(data) == [kind |-> "push", code |-> 0, data |-> data]
Op(code) == [kind |-> "op", code |-> code, data |-> <<>>]
InstructionError == [kind |-> "err", code |-> 0, data |-> <<>>]

\* The bytes of a little-endian length field
RECURSIVE ReadLE(_)
ReadLE(b) == IF b = <<>> THEN 0 ELSE b[1] + 256 * ReadLE(Tail(b))

\* Script::instructions(): the instructions of a script in order; the
\* iterator ends after the first error
RECURSIVE Instructions(_)
Instructions(b) ==
    IF b = <<>> THEN <<>>
    ELSE LET op == b[1]
             \* a push whose length field has w bytes
             Pushed(w) ==
                 IF Len(b) < 1 + w THEN <<InstructionError>>
                 ELSE LET n == ReadLE(SubSeq(b, 2, 1 + w))
                      IN IF Len(b) < 1 + w + n THEN <<InstructionError>>
                         ELSE <<PushBytes(SubSeq(b, 2 + w, 1 + w + n))>>
                              \o Instructions(SubSeq(b, 2 + w + n, Len(b)))
         IN IF op <= OP_PUSHBYTES_75
            THEN IF Len(b) < 1 + op THEN <<InstructionError>>
                 ELSE <<PushBytes(SubSeq(b, 2, 1 + op))>>
                      \o Instructions(SubSeq(b, 2 + op, Len(b)))
            ELSE IF op = OP_PUSHDATA1 THEN Pushed(1)
            ELSE IF op = OP_PUSHDATA2 THEN Pushed(2)
            ELSE IF op = OP_PUSHDATA4 THEN Pushed(4)
            ELSE <<Op(op)>> \o Instructions(Tail(b))

\* opcodes::All::classify, as far as Class::PushNum goes
ClassifyPushNum(code) ==
    IF code = OP_PUSHNUM_NEG1 THEN Some(-1)
    ELSE IF code >= OP_PUSHNUM_1 /\ code <= OP_PUSHNUM_16
         THEN Some(1 + code - OP_PUSHNUM_1)
    ELSE None

----------------------------------------------------------------------------
(* The contract redeemscript and its parsers.                              *)

\* a Hash160 value: 20 bytes
HashvalueOf(h) == [i \in 1..20 |-> (h + i) % 256]

create_contract_redeemscript(pub_hashlock, pub_timelock, hashvalue, locktime) ==
    LET s1 == PushOpcode(<<>>, OP_SIZE)
        s2 == PushOpcode(s1, OP_SWAP)
        s3 == PushOpcode(s2, OP_HASH160)
        s4 == PushSlice(s3, hashvalue)
        s5 == PushOpcode(s4, OP_EQUAL)
        s6 == PushOpcode(s5, OP_IF)
        s7 == PushKey(s6, pub_hashlock)
        s8 == PushInt(s7, 32)
        s9 == PushInt(s8, 1)
        s10 == PushOpcode(s9, OP_ELSE)
        s11 == PushKey(s10, pub_timelock)
        s12 == PushInt(s11, 0)
        s13 == PushInt(s12, locktime)
        s14 == PushOpcode(s13, OP_ENDIF)
        s15 == PushOpcode(s14, OP_CSV)
        s16 == PushOpcode(s15, OP_DROP)
        s17 == PushOpcode(s16, OP_ROT)
        s18 == PushOpcode(s17, OP_EQUALVERIFY)
    IN PushOpcode(s18, OP_CHECKSIG)

read_hashvalue_from_contract(redeemscript) ==
    IF Len(redeemscript) < 25 THEN Err("script too short")
    ELSE Ok(SubSeq(redeemscript, 5, 24))

\* a push of three bytes not taken for a locktime
LocktimeOfPush_NoThreeBytes(locktime_bytes) ==
    IF Len(locktime_bytes) = 1 THEN Some(locktime_bytes[1])
    ELSE IF Len(locktime_bytes) = 2
         THEN Some(locktime_bytes[1] + 256 * locktime_bytes[2])
    ELSE None

\* the two bytes of a push read with the high byte first
LocktimeOfPush_BigEndian(locktime_bytes) ==
    IF Len(locktime_bytes) = 1 THEN Some(locktime_bytes[1])
    ELSE IF Len(locktime_bytes) \in {2, 3}
         THEN Some(256 * locktime_bytes[1] + locktime_bytes[2])
    ELSE None

\* the last two bytes of a push read
LocktimeOfPush_LastTwoBytes(locktime_bytes) ==
    IF Len(locktime_bytes) = 1 THEN Some(locktime_bytes[1])
    ELSE IF Len(locktime_bytes) \in {2, 3}
         THEN Some(locktime_bytes[Len(locktime_bytes) - 1]
                   + 256 * locktime_bytes[Len(locktime_bytes)])
    ELSE None

\* the 3-byte push is read like the 2-byte push: its first two bytes
LocktimeOfPush(locktime_bytes) ==
    IF Len(locktime_bytes) = 1 THEN Some(locktime_bytes[1])
    ELSE IF Len(locktime_bytes) \in {2, 3}
         THEN Some(locktime_bytes[1] + 256 * locktime_bytes[2])
    ELSE None

read_locktime_from_contract(redeemscript) ==
    LET ins == Instructions(redeemscript)
    IN IF Len(ins) < 13 THEN None
       ELSE IF ins[13].kind = "err" THEN None
       ELSE IF ins[13].kind = "push" THEN LocktimeOfPush(ins[13].data)
       ELSE LET n == ClassifyPushNum(ins[13].code)
            IN IF n.ok /\ n.val >= 0 /\ n.val < U16Modulus THEN Some(n.val)
               ELSE None

read_hashlock_pubkey_from_contract(redeemscript) ==
    IF Len(redeemscript) < 61 THEN Err("script too short")
    ELSE PublicKeyFromSlice(SubSeq(redeemscript, 28, 60))

read_timelock_pubkey_from_contract(redeemscript) ==
    IF Len(redeemscript) < 99 THEN Err("script too short")
    ELSE PublicKeyFromSlice(SubSeq(redeemscript, 66, 98))


----------------------------------------------------------------------------
(* Scripts, outpoints and transactions.                                    *)

\* Script::wscript_hash: SHA256 of the script, taken to be free of collisions
WScriptHash(script) == <<script>>

\* the P2WSH script pubkey: witness version 0, a push of 32 bytes, the hash
redeemscript_to_scriptpubkey(redeemscript) ==
    <<OP_PUSHBYTES_0, 32>> \o WScriptHash(redeemscript)

\* wallet_sync::create_multisig_redeemscript, from the encoded keys
MultisigScriptOfBytes(b1, b2) ==
    PushOpcode(PushOpcode(PushSlice(PushSlice(PushOpcode(<<>>, OP_PUSHNUM_2), b1), b2),
                          OP_PUSHNUM_2), OP_CHECKMULTISIG)

create_multisig_redeemscript(key1, key2) ==
    MultisigScriptOfBytes(SerializePublicKey(key1), SerializePublicKey(key2))

read_pubkeys_from_multisig_redeemscript(redeemscript) ==
    \* the slices [2..35] and [36..69] panic on a script shorter than 69 bytes
    IF Len(redeemscript) < 69 THEN Panic
    ELSE LET pubkey1 == PublicKeyFromSlice(SubSeq(redeemscript, 3, 35))
             pubkey2 == PublicKeyFromSlice(SubSeq(redeemscript, 37, 69))
         IN IF ~pubkey1.ok \/ ~pubkey2.ok THEN None
            ELSE Some(<<pubkey1.val, pubkey2.val>>)

OutPoint(txid, vout) == [txid |-> txid, vout |-> vout]
TxIn(previous_output) ==
    [previous_output |-> previous_output, sequence |-> 0, witness |-> <<>>, script_sig |-> <<>>]
TxOut(script_pubkey, value) == [script_pubkey |-> script_pubkey, value |-> value]
Transaction(input, output) ==
    [version |-> 2, lock_time |-> 0, input |-> input, output |-> output]

\* SigHashCache::signature_hash(0, script, amount, SigHashType::All): the
\* BIP143 digest commits to the transaction, the script code and the amount
SignatureHash(tx, script, amount) == [tx |-> tx, script |-> script, amount |-> amount]

\* Secp256k1::sign and Secp256k1::verify: a signature verifies under the
\* public key of the key that made it, over the message it was made over
Sign(sighash, privkey) == [signer |-> FromSecretKey(privkey), sighash |-> sighash]
Verify(sighash, sig, pubkey) == sig.signer = pubkey /\ sig.sighash = sighash

sign_contract_tx(contract_tx, multisig_redeemscript, funding_amount, privkey) ==
    Ok(Sign(SignatureHash(contract_tx, multisig_redeemscript, funding_amount), privkey))

\* the amount left out of what the signature is checked over
verify_contract_tx_sig_NoAmount(contract_tx, multisig_redeemscript, funding_amount, pubkey, sig) ==
    Verify(SignatureHash(contract_tx, multisig_redeemscript, sig.sighash.amount), sig, pubkey)

verify_contract_tx_sig(contract_tx, multisig_redeemscript, funding_amount, pubkey, sig) ==
    Verify(SignatureHash(contract_tx, multisig_redeemscript, funding_amount), sig, pubkey)

----------------------------------------------------------------------------
(* The maker's wallet.                                                     *)

\* the wallet's long-term key pair (Wallet::get_tweakable_keypair)
WalletTweakablePrivkey == HalfOrder
WalletTweakablePoint == FromSecretKey(WalletTweakablePrivkey)

\* the funding transactions a taker names, by txid
Txids == {1}
Vouts == {0, 1}
Outpoints == {OutPoint(t, v) : t \in Txids, v \in Vouts}

\* no entry of prevout_to_contract_map
NoContract == <<>>

\* Wallet::does_prevout_match_cached_contract
does_prevout_match_cached_contract(c, prevout, contract_scriptpubkey) ==
    IF c[prevout] = NoContract THEN TRUE ELSE c[prevout] = contract_scriptpubkey

\* Wallet::add_prevout_and_contract_to_cache
add_prevout_and_contract_to_cache(c, prevout, contract) ==
    [c EXCEPT ![prevout] = contract]

\* the nonce taken for a point
calculate_maker_pubkey_from_nonce_NoPoint(tweakable_point, nonce) ==
    Combine(tweakable_point, nonce)

calculate_maker_pubkey_from_nonce(tweakable_point, nonce) ==
    Combine(tweakable_point, FromSecretKey(nonce))

is_contract_out_valid(contract_output, hashlock_pubkey, timelock_pubkey, hashvalue, locktime, minimum_locktime) ==
    IF minimum_locktime > locktime THEN Err("locktime too short")
    ELSE LET redeemscript_from_request ==
                 create_contract_redeemscript(hashlock_pubkey, timelock_pubkey,
                                              hashvalue, locktime)
             contract_spk_from_request ==
                 redeemscript_to_scriptpubkey(redeemscript_from_request)
         IN IF contract_output.script_pubkey # contract_spk_from_request
            THEN Err("given transaction does not pay to requested contract")
            ELSE Ok(TRUE)

\* The outcome of a handler: what it returns and the cache it leaves
Outcome(result, c) == [result |-> result, cache |-> c]

\* validate_and_sign_senders_contract_tx, its steps in order.

SendersContractCountCheck(tx) ==
    IF Len(tx.input) # 1 \/ Len(tx.output) # 1
    THEN Err("invalid number of inputs or outputs")
    ELSE Ok(TRUE)

\* the check of the cache left out
SendersContractCacheCheck_Skipped(c, tx) == Ok(TRUE)

SendersContractCacheCheck(c, tx) ==
    IF ~does_prevout_match_cached_contract(c, tx.input[1].previous_output,
                                           tx.output[1].script_pubkey)
    THEN Err("taker attempting multiple contract attack, rejecting")
    ELSE Ok(TRUE)

HashlockPubkeyFromNonce(tweakable_privkey, hashlock_key_nonce) ==
    LET hashlock_privkey_from_nonce == AddAssign(tweakable_privkey, hashlock_key_nonce)
    IN IF ~hashlock_privkey_from_nonce.ok
       THEN Err("error with hashlock tweakable privkey + hashlock nonce")
       ELSE Ok(FromSecretKey(hashlock_privkey_from_nonce.val))

\* the cache has its entry by now: an error here leaves it in the cache
SignWithMultisigNonce(req) ==
    LET multisig_privkey_from_nonce ==
            AddAssign(req.tweakable_privkey, req.multisig_key_nonce)
    IN IF ~multisig_privkey_from_nonce.ok
       THEN Err("error with multisig tweakable privkey + multisig nonce")
       ELSE LET sig == sign_contract_tx(req.senders_contract_tx,
                                        req.multisig_redeemscript,
                                        req.funding_input_value,
                                        multisig_privkey_from_nonce.val)
            IN IF ~sig.ok THEN Err("error with signing contract tx") ELSE sig

validate_and_sign_senders_contract_tx(req, c) ==
    LET tx == req.senders_contract_tx
        counted == SendersContractCountCheck(tx)
    IN IF ~counted.ok THEN Outcome(counted, c)
       ELSE
       LET matched == SendersContractCacheCheck(c, tx)
       IN IF ~matched.ok THEN Outcome(matched, c)
          ELSE
          LET hashlock_pubkey_from_nonce ==
                  HashlockPubkeyFromNonce(req.tweakable_privkey, req.hashlock_key_nonce)
          IN IF ~hashlock_pubkey_from_nonce.ok
             THEN Outcome(hashlock_pubkey_from_nonce, c)
             ELSE
             LET valid == is_contract_out_valid(
                              tx.output[1], hashlock_pubkey_from_nonce.val,
                              req.timelock_pubkey, req.hashvalue, req.locktime,
                              req.minimum_locktime)
             IN IF ~valid.ok THEN Outcome(valid, c)
                ELSE Outcome(SignWithMultisigNonce(req),
                             add_prevout_and_contract_to_cache(
                                 c, tx.input[1].previous_output,
                                 tx.output[1].script_pubkey))

\* Vec::splice(a..b, with): the bytes a..b replaced
Splice(bytes, a, b, with) ==
    SubSeq(bytes, 1, a) \o with \o SubSeq(bytes, b + 1, Len(bytes))

PUB_PLACEHOLDER == Repeat(2, 33)

\* the error of a failed RPC, passed on by the ? operator
RpcError == Err("Error::Rpc")

\* verify_proof_of_funding, its checks in order.

\* an output without a confirmation let through
FundingTxOutCheck_Unconfirmed(tx_out) ==
    IF tx_out.kind = "error" THEN RpcError
    ELSE IF tx_out.kind = "none" THEN Err("funding tx output doesnt exist")
    ELSE Ok(TRUE)

\* tx_out is the node's answer to get_tx_out(funding_tx.txid(), funding_output_index)
FundingTxOutCheck(tx_out) ==
    IF tx_out.kind = "error" THEN RpcError
    ELSE IF tx_out.kind = "none" THEN Err("funding tx output doesnt exist")
    ELSE IF tx_out.confirmations < 1 THEN Err("funding tx not confirmed")
    ELSE Ok(TRUE)

\* only the length compared with the template
MultisigTemplateCheck_LengthOnly(ms_rs_bytes) ==
    IF Len(ms_rs_bytes) # Len(MultisigScriptOfBytes(PUB_PLACEHOLDER, PUB_PLACEHOLDER))
    THEN Err("wrong multisig_redeemscript length")
    ELSE Ok(TRUE)

MultisigTemplateCheck(ms_rs_bytes) ==
    LET template_ms_rs == MultisigScriptOfBytes(PUB_PLACEHOLDER, PUB_PLACEHOLDER)
    IN IF Len(ms_rs_bytes) # Len(template_ms_rs)
       THEN Err("wrong multisig_redeemscript length")
       ELSE IF Splice(Splice(ms_rs_bytes, 2, 35, PUB_PLACEHOLDER), 36, 69, PUB_PLACEHOLDER)
               # template_ms_rs
       THEN Err("multisig_redeemscript not matching template")
       ELSE Ok(TRUE)

\* the two keys of the multisig and the maker's own
MultisigPubkeysCheck(multisig_redeemscript, multisig_key_nonce) ==
    LET pubkeys == read_pubkeys_from_multisig_redeemscript(multisig_redeemscript)
        my_pubkey == calculate_maker_pubkey_from_nonce(WalletTweakablePoint,
                                                       multisig_key_nonce)
    IN IF pubkeys = Panic THEN Panic
       ELSE IF ~pubkeys.ok THEN Err("invalid multisig_redeemscript")
       ELSE IF ~my_pubkey.ok THEN Err("unable to calculate maker pubkey from nonce")
       ELSE IF pubkeys.val[1] # my_pubkey.val /\ pubkeys.val[2] # my_pubkey.val
       THEN Err("wrong pubkeys in multisig_redeemscript")
       ELSE Ok([pubkey1 |-> pubkeys.val[1], pubkey2 |-> pubkeys.val[2],
                my_pubkey |-> my_pubkey.val])

\* locktime - next_locktime on u16: below zero it wraps in a build without
\* overflow checks and panics in a build with them
SubU16(a, b, overflow_checks) ==
    IF a >= b THEN Ok(a - b)
    ELSE IF overflow_checks THEN Panic
    ELSE Ok((a - b + U16Modulus) % U16Modulus)

ContractLocktimeCheck(contract_redeemscript, next_locktime, min_contract_react_time, overflow_checks) ==
    LET locktime == read_locktime_from_contract(contract_redeemscript)
    IN IF ~locktime.ok THEN Err("unable to read locktime from contract")
       ELSE LET react_time == SubU16(locktime.val, next_locktime, overflow_checks)
            IN IF ~react_time.ok THEN Panic
               ELSE IF react_time.val < min_contract_react_time
               THEN Err("locktime too short")
               ELSE Ok(TRUE)

\* the key of the contract not compared with the derived key
ContractHashlockPubkeyCheck_NoCompare(contract_redeemscript, hashlock_key_nonce) ==
    IF ~read_hashlock_pubkey_from_contract(contract_redeemscript).ok
    THEN Err("unable to read hashlock pubkey from contract")
    ELSE IF ~calculate_maker_pubkey_from_nonce(WalletTweakablePoint, hashlock_key_nonce).ok
    THEN Err("unable to calculate maker pubkey from nonce")
    ELSE Ok(TRUE)

ContractHashlockPubkeyCheck(contract_redeemscript, hashlock_key_nonce) ==
    LET contract_hashlock_pubkey == read_hashlock_pubkey_from_contract(contract_redeemscript)
        derived_hashlock_pubkey ==
            calculate_maker_pubkey_from_nonce(WalletTweakablePoint, hashlock_key_nonce)
    IN IF ~contract_hashlock_pubkey.ok
       THEN Err("unable to read hashlock pubkey from contract")
       ELSE IF ~derived_hashlock_pubkey.ok
       THEN Err("unable to calculate maker pubkey from nonce")
       ELSE IF contract_hashlock_pubkey.val # derived_hashlock_pubkey.val
       THEN Err("contract hashlock pubkey doesnt match key derived from nonce")
       ELSE Ok(TRUE)

\* the check of the cache left out
ProofCacheCheck_Skipped(c, funding_tx, funding_output_index, contract_redeemscript) ==
    Ok(TRUE)

ProofCacheCheck(c, funding_tx, funding_output_index, contract_redeemscript) ==
    IF ~does_prevout_match_cached_contract(
           c, OutPoint(funding_tx.txid, funding_output_index),
           redeemscript_to_scriptpubkey(contract_redeemscript))
    THEN Err("provided contract does not match sender contract tx, rejecting")
    ELSE Ok(TRUE)

\* the second key of the multisig always taken for the other party's
ProofOfFundingKeys_SecondKey(keys, multisig_key_nonce, hashlock_key_nonce) ==
    LET my_privkey == AddAssign(WalletTweakablePrivkey, multisig_key_nonce)
        hashlock_privkey == AddAssign(WalletTweakablePrivkey, hashlock_key_nonce)
    IN IF ~my_privkey.ok \/ ~hashlock_privkey.ok
       THEN Err("error with wallet tweakable privkey + nonce")
       ELSE Ok([my_privkey |-> my_privkey.val,
                other_pubkey |-> keys.pubkey2,
                hashlock_privkey |-> hashlock_privkey.val])

\* my_multisig_privkey, other_multisig_pubkey, my_hashlock_privkey
ProofOfFundingKeys(keys, multisig_key_nonce, hashlock_key_nonce) ==
    LET my_privkey == AddAssign(WalletTweakablePrivkey, multisig_key_nonce)
        hashlock_privkey == AddAssign(WalletTweakablePrivkey, hashlock_key_nonce)
    IN IF ~my_privkey.ok \/ ~hashlock_privkey.ok
       THEN Err("error with wallet tweakable privkey + nonce")
       ELSE Ok([my_privkey |-> my_privkey.val,
                other_pubkey |-> IF keys.pubkey1 = keys.my_pubkey
                                 THEN keys.pubkey2 ELSE keys.pubkey1,
                hashlock_privkey |-> hashlock_privkey.val])

verify_proof_of_funding(req, c, overflow_checks) ==
    LET confirmed == FundingTxOutCheck(req.tx_out)
    IN IF ~confirmed.ok THEN confirmed ELSE
    LET template == MultisigTemplateCheck(req.multisig_redeemscript)
    IN IF ~template.ok THEN template ELSE
    LET keys == MultisigPubkeysCheck(req.multisig_redeemscript, req.multisig_key_nonce)
    IN IF ~keys.ok THEN keys ELSE
    LET locktime == ContractLocktimeCheck(req.contract_redeemscript, req.next_locktime,
                                          req.min_contract_react_time, overflow_checks)
    IN IF ~locktime.ok THEN locktime ELSE
    LET hashlock == ContractHashlockPubkeyCheck(req.contract_redeemscript,
                                                req.hashlock_key_nonce)
    IN IF ~hashlock.ok THEN hashlock ELSE
    LET cached == ProofCacheCheck(c, req.funding_tx, req.funding_output_index,
                                  req.contract_redeemscript)
    IN IF ~cached.ok THEN cached ELSE
    ProofOfFundingKeys(keys.val, req.multisig_key_nonce, req.hashlock_key_nonce)

----------------------------------------------------------------------------
(* What a taker can send to the maker.                                     *)

\* the nonces a taker sends: two the wallet's key can be tweaked by, and the
\* one that tweaks it to zero
GoodNonces == {n \in SecretKeys : n <= 2 /\ AddAssign(WalletTweakablePrivkey, n).ok}
Nonces == GoodNonces \cup {CurveOrder - WalletTweakablePrivkey}

\* the maker's key for a nonce
MakerKey(n) == FromSecretKey(AddAssign(WalletTweakablePrivkey, n).val)
MakerKeys == {MakerKey(n) : n \in GoodNonces}
\* a key of the taker
TakerPubkey == CHOOSE p \in PublicKeys : p \notin MakerKeys
TakerKeys == MakerKeys \cup {TakerPubkey}

TheHashvalue == HashvalueOf(7)
ContractLocktimes == {10, 300}
MinimumLocktimes == {20}
NextLocktimes == {20, 290}
ReactTimes == {50}
FundingValue == 30000

WellFormedContracts ==
    {create_contract_redeemscript(hp, TakerPubkey, TheHashvalue, l) :
        hp \in MakerKeys, l \in ContractLocktimes}
AContract == create_contract_redeemscript(TakerPubkey, TakerPubkey, TheHashvalue, 300)
\* a contract cut before its locktime, and one whose hashlock key is no point
TakerContractScripts ==
    WellFormedContracts
    \cup {SubSeq(AContract, 1, 98), Splice(AContract, 27, 60, Repeat(0, 33))}

AMultisig == create_multisig_redeemscript(TakerPubkey, TakerPubkey)
\* a 2-of-2 of any two keys, one byte short, a 1-of-2, and one with a key that
\* is no point
TakerMultisigScripts ==
    {create_multisig_redeemscript(a, b) : a, b \in {MakerKey(1), TakerPubkey}}
    \cup {SubSeq(AMultisig, 1, Len(AMultisig) - 1),
          <<OP_PUSHNUM_1>> \o Tail(AMultisig),
          MultisigScriptOfBytes(Repeat(0, 33), SerializePublicKey(TakerPubkey))}

\* contract transactions: one input and one output, and the wrong counts
AnInput == TxIn(OutPoint(1, 0))
AnOutput == TxOut(redeemscript_to_scriptpubkey(AContract), FundingValue - 1000)
TakerContractTxs ==
    {Transaction(<<TxIn(o)>>, <<TxOut(redeemscript_to_scriptpubkey(cs), FundingValue - 1000)>>) :
        o \in Outpoints, cs \in TakerContractScripts}
    \cup {Transaction(<<>>, <<AnOutput>>),
          Transaction(<<AnInput, AnInput>>, <<AnOutput>>),
          Transaction(<<AnInput>>, <<>>),
          Transaction(<<AnInput>>, <<AnOutput, AnOutput>>)}

SignRequests ==
    [multisig_key_nonce : Nonces,
     hashlock_key_nonce : Nonces,
     timelock_pubkey : {TakerPubkey},
     senders_contract_tx : TakerContractTxs,
     multisig_redeemscript : {create_multisig_redeemscript(TakerPubkey, MakerKey(1))},
     funding_input_value : {FundingValue},
     hashvalue : {TheHashvalue},
     locktime : ContractLocktimes,
     minimum_locktime : MinimumLocktimes,
     tweakable_privkey : {WalletTweakablePrivkey}]

\* the answers of the node to get_tx_out: an error, no output, or the output
\* of the funding transaction with its confirmations and the script it pays,
\* the P2WSH of a 2-of-2 with the maker's key or that of another script
TxOutAnswers ==
    {[kind |-> "error", confirmations |-> 0, script_pub_key |-> <<>>],
     [kind |-> "none", confirmations |-> 0, script_pub_key |-> <<>>]}
    \cup {[kind |-> "some", confirmations |-> n,
           script_pub_key |-> redeemscript_to_scriptpubkey(script)] :
             n \in 0..MaxConfirmations,
             script \in {create_multisig_redeemscript(MakerKey(1), TakerPubkey), AContract}}

ProofRequests ==
    [tx_out : TxOutAnswers,
     funding_tx : {[txid |-> t] : t \in Txids},
     funding_output_index : Vouts,
     multisig_redeemscript : TakerMultisigScripts,
     multisig_key_nonce : Nonces,
     hashlock_key_nonce : Nonces,
     contract_redeemscript : TakerContractScripts,
     next_locktime : NextLocktimes,
     min_contract_react_time : ReactTimes]

----------------------------------------------------------------------------
(* The maker: it answers one request at a time.                            *)

Idle == [op |-> "idle"]

\* a SignSendersContractTx message is handled
SignSendersContractTx ==
    /\ call.op = "idle"
    /\ \E req \in SignRequests :
        LET out == validate_and_sign_senders_contract_tx(req, cache)
        IN /\ cache' = out.cache
           /\ call' = [op |-> "sign", req |-> req, before |-> cache, result |-> out.result]
           /\ signed' = IF out.result.ok
                        THEN signed \cup {<<req.senders_contract_tx.input[1].previous_output,
                                            req.senders_contract_tx.output[1].script_pubkey>>}
                        ELSE signed
    /\ UNCHANGED <<coin, coinCall, codecIn, codecOut, fnCall, download, offerbook, settings, handlers>>

\* a ProofOfFunding message is handled
ProofOfFunding ==
    /\ call.op = "idle"
    /\ \E req \in ProofRequests, overflow_checks \in BOOLEAN :
        call' = [op |-> "proof", req |-> req, before |-> cache,
                 result |-> verify_proof_of_funding(req, cache, overflow_checks)]
    /\ UNCHANGED <<cache, signed, coin, coinCall, codecIn, codecOut, fnCall, download, offerbook, settings, handlers>>

\* the answer is sent and the maker waits for the next message
Reply ==
    /\ call.op # "idle"
    /\ call' = Idle
    /\ UNCHANGED <<cache, signed, coin, coinCall, codecIn, codecOut, fnCall, download, offerbook, settings, handlers>>

NoCoin == [variant |-> "none"]
NoCodec == [done |-> FALSE]
NoCall == [fn |-> "none"]
NoDownload == [pc |-> "none"]
NoOfferbook == [pc |-> "none"]

Init ==
    /\ cache = [o \in Outpoints |-> NoContract]
    /\ signed = {}
    /\ call = Idle
    /\ coin = NoCoin
    /\ coinCall = Idle
    /\ codecIn = NoCodec
    /\ codecOut = NoCodec
    /\ fnCall = NoCall
    /\ download = NoDownload
    /\ offerbook = NoOfferbook
    /\ settings = [SETTINGS |-> None, log |-> <<>>]
    /\ handlers = <<>>

Next == SignSendersContractTx \/ ProofOfFunding \/ Reply

Spec == Init /\ [][Next]_vars


----------------------------------------------------------------------------
(* The swap-coins.                                                         *)

\* wallet_sync::IncomingSwapCoin::new: the other party's private key is not
\* known when the coin is made
IncomingSwapCoin_new(my_privkey, other_pubkey, contract_tx, contract_redeemscript, funding_amount) ==
    [variant |-> "incoming", my_privkey |-> my_privkey, other_pubkey |-> other_pubkey,
     other_privkey |-> None, contract_tx |-> contract_tx,
     contract_redeemscript |-> contract_redeemscript, funding_amount |-> funding_amount]

\* wallet_sync::OutgoingSwapCoin::new
OutgoingSwapCoin_new(my_privkey, other_pubkey, contract_tx, contract_redeemscript, funding_amount) ==
    [variant |-> "outgoing", my_privkey |-> my_privkey, other_pubkey |-> other_pubkey,
     contract_tx |-> contract_tx, contract_redeemscript |-> contract_redeemscript,
     funding_amount |-> funding_amount]

WatchOnlySwapCoin_new(multisig_redeemscript, receiver_pubkey, contract_tx, contract_redeemscript, funding_amount) ==
    LET pubkeys == read_pubkeys_from_multisig_redeemscript(multisig_redeemscript)
    IN IF pubkeys = Panic THEN Panic
       ELSE IF ~pubkeys.ok THEN Err("invalid pubkeys in multisig_redeemscript")
       ELSE IF pubkeys.val[1] # receiver_pubkey /\ pubkeys.val[2] # receiver_pubkey
       THEN Err("given sender_pubkey not included in redeemscript")
       ELSE Ok([variant |-> "watchonly",
                sender_pubkey |-> IF pubkeys.val[1] = receiver_pubkey
                                  THEN pubkeys.val[2] ELSE pubkeys.val[1],
                receiver_pubkey |-> receiver_pubkey,
                contract_tx |-> contract_tx,
                contract_redeemscript |-> contract_redeemscript,
                funding_amount |-> funding_amount])

get_multisig_redeemscript(self) ==
    IF self.variant = "watchonly"
    THEN create_multisig_redeemscript(self.sender_pubkey, self.receiver_pubkey)
    ELSE create_multisig_redeemscript(self.other_pubkey, FromSecretKey(self.my_privkey))

\* the method the macro verify_contract! gives the Incoming and the Outgoing coin
SwapCoin_verify_contract_tx_sig(self, sig) ==
    verify_contract_tx_sig(self.contract_tx, get_multisig_redeemscript(self),
                           self.funding_amount, self.other_pubkey, sig)

\* the sender's signature verified under the sender's key
WatchOnly_verify_sender_sig_SenderKey(self, sig) ==
    verify_contract_tx_sig(self.contract_tx, get_multisig_redeemscript(self),
                           self.funding_amount, self.sender_pubkey, sig)

WatchOnly_verify_contract_tx_sender_sig(self, sig) ==
    verify_contract_tx_sig(self.contract_tx, get_multisig_redeemscript(self),
                           self.funding_amount, self.receiver_pubkey, sig)

WatchOnly_verify_contract_tx_receiver_sig(self, sig) ==
    verify_contract_tx_sig(self.contract_tx, get_multisig_redeemscript(self),
                           self.funding_amount, self.sender_pubkey, sig)

verify_contract_tx_sender_sig(self, sig) ==
    IF self.variant = "watchonly" THEN WatchOnly_verify_contract_tx_sender_sig(self, sig)
    ELSE SwapCoin_verify_contract_tx_sig(self, sig)

verify_contract_tx_receiver_sig(self, sig) ==
    IF self.variant = "watchonly" THEN WatchOnly_verify_contract_tx_receiver_sig(self, sig)
    ELSE SwapCoin_verify_contract_tx_sig(self, sig)

\* apply_privkey gives its result and what the coin is after it
Applied(result, self) == [result |-> result, self |-> self]

\* the key stored whatever its public key
Incoming_apply_privkey_Unchecked(self, privkey) ==
    Applied(Ok(TRUE), [self EXCEPT !.other_privkey = Some(privkey)])

Incoming_apply_privkey(self, privkey) ==
    LET pubkey == FromSecretKey(privkey)
    IN IF pubkey # self.other_pubkey
       THEN Applied(Err("not correct privkey"), self)
       ELSE Applied(Ok(TRUE), [self EXCEPT !.other_privkey = Some(privkey)])

Outgoing_apply_privkey(self, privkey) ==
    LET pubkey == FromSecretKey(privkey)
    IN IF pubkey = self.other_pubkey
       THEN Applied(Ok(TRUE), self)
       ELSE Applied(Err("not correct privkey"), self)

WatchOnly_apply_privkey(self, privkey) ==
    LET pubkey == FromSecretKey(privkey)
    IN IF pubkey = self.sender_pubkey \/ pubkey = self.receiver_pubkey
       THEN Applied(Ok(TRUE), self)
       ELSE Applied(Err("not correct privkey"), self)

apply_privkey(self, privkey) ==
    IF self.variant = "incoming" THEN Incoming_apply_privkey(self, privkey)
    ELSE IF self.variant = "outgoing" THEN Outgoing_apply_privkey(self, privkey)
    ELSE WatchOnly_apply_privkey(self, privkey)

\* the contract transaction of the coin, and another transaction
CoinContractTx == Transaction(<<AnInput>>, <<AnOutput>>)
OtherContractTx == Transaction(<<TxIn(OutPoint(1, 1))>>, <<AnOutput>>)

\* the multisig scripts a watch-only coin is made from: of any two keys, and
\* one with a key that is no point
WatchedMultisigScripts ==
    {create_multisig_redeemscript(a, b) : a, b \in PublicKeys}
    \cup {MultisigScriptOfBytes(Repeat(0, 33), SerializePublicKey(TakerPubkey))}

\* the signatures a peer sends: by any key, over the contract transaction of
\* the coin or over another transaction
PeerSignatures(self) ==
    {sign_contract_tx(tx, get_multisig_redeemscript(self), self.funding_amount, k).val :
        tx \in {CoinContractTx, OtherContractTx}, k \in SecretKeys}

NewIncomingSwapCoin ==
    /\ coin = NoCoin
    /\ \E my_privkey \in SecretKeys, other_pubkey \in PublicKeys :
          coin' = IncomingSwapCoin_new(my_privkey, other_pubkey, CoinContractTx,
                                       AContract, FundingValue)
    /\ coinCall' = [op |-> "new"]
    /\ UNCHANGED <<cache, signed, call, codecIn, codecOut, fnCall, download, offerbook, settings, handlers>>

NewOutgoingSwapCoin ==
    /\ coin = NoCoin
    /\ \E my_privkey \in SecretKeys, other_pubkey \in PublicKeys :
          coin' = OutgoingSwapCoin_new(my_privkey, other_pubkey, CoinContractTx,
                                       AContract, FundingValue)
    /\ coinCall' = [op |-> "new"]
    /\ UNCHANGED <<cache, signed, call, codecIn, codecOut, fnCall, download, offerbook, settings, handlers>>

NewWatchOnlySwapCoin ==
    /\ coin = NoCoin
    /\ \E ms \in WatchedMultisigScripts, receiver_pubkey \in PublicKeys :
          LET made == WatchOnlySwapCoin_new(ms, receiver_pubkey, CoinContractTx,
                                            AContract, FundingValue)
          IN /\ coin' = IF made.ok THEN made.val ELSE NoCoin
             /\ coinCall' = [op |-> "new"]
    /\ UNCHANGED <<cache, signed, call, codecIn, codecOut, fnCall, download, offerbook, settings, handlers>>

ApplyPrivkey ==
    /\ coin # NoCoin
    /\ \E privkey \in SecretKeys :
          LET out == apply_privkey(coin, privkey)
          IN /\ coin' = out.self
             /\ coinCall' = [op |-> "apply_privkey", privkey |-> privkey,
                             before |-> coin, result |-> out.result]
    /\ UNCHANGED <<cache, signed, call, codecIn, codecOut, fnCall, download, offerbook, settings, handlers>>

VerifySenderSig ==
    /\ coin # NoCoin
    /\ \E sig \in PeerSignatures(coin) :
          coinCall' = [op |-> "verify_sender_sig", sig |-> sig,
                       result |-> verify_contract_tx_sender_sig(coin, sig)]
    /\ UNCHANGED <<cache, signed, call, coin, codecIn, codecOut, fnCall, download, offerbook, settings, handlers>>

VerifyReceiverSig ==
    /\ coin # NoCoin
    /\ \E sig \in PeerSignatures(coin) :
          coinCall' = [op |-> "verify_receiver_sig", sig |-> sig,
                       result |-> verify_contract_tx_receiver_sig(coin, sig)]
    /\ UNCHANGED <<cache, signed, call, coin, codecIn, codecOut, fnCall, download, offerbook, settings, handlers>>

NextSwapCoin ==
    \/ NewIncomingSwapCoin \/ NewOutgoingSwapCoin \/ NewWatchOnlySwapCoin
    \/ ApplyPrivkey \/ VerifySenderSig \/ VerifyReceiverSig

SpecSwapCoin == Init /\ [][NextSwapCoin]_vars

----------------------------------------------------------------------------
(* The contract redeemscript made and read back.                           *)

\* every u16 locktime with one pair of keys and one hash value, and the
\* locktimes at the ends of each encoding with every pair of keys and hash
\* values of low and high bytes
U16Values == 0..(U16Modulus - 1)
EdgeLocktimes == {1, 16, 17, 127, 128, 255, 256, 32767, 32768, 65535}
CodecInputs ==
    [pub_hashlock : {TakerPubkey}, pub_timelock : {TakerPubkey},
     hashvalue : {TheHashvalue}, locktime : U16Values]
    \cup [pub_hashlock : PublicKeys, pub_timelock : PublicKeys,
          hashvalue : {HashvalueOf(0), TheHashvalue, HashvalueOf(250)},
          locktime : EdgeLocktimes]

InitCodec ==
    /\ cache = [o \in Outpoints |-> NoContract]
    /\ signed = {}
    /\ call = Idle
    /\ coin = NoCoin
    /\ coinCall = Idle
    /\ codecIn \in CodecInputs
    /\ codecOut = NoCodec
    /\ fnCall = NoCall
    /\ download = NoDownload
    /\ offerbook = NoOfferbook
    /\ settings = [SETTINGS |-> None, log |-> <<>>]
    /\ handlers = <<>>

\* the script is made by create_contract_redeemscript and each reader reads it
ContractScriptRoundTrip ==
    /\ ~codecOut.done
    /\ LET script == create_contract_redeemscript(codecIn.pub_hashlock, codecIn.pub_timelock,
                                                  codecIn.hashvalue, codecIn.locktime)
       IN codecOut' = [done |-> TRUE,
                       script |-> script,
                       hashvalue |-> read_hashvalue_from_contract(script),
                       locktime |-> read_locktime_from_contract(script),
                       hashlock_pubkey |-> read_hashlock_pubkey_from_contract(script),
                       timelock_pubkey |-> read_timelock_pubkey_from_contract(script)]
    /\ UNCHANGED <<cache, signed, call, coin, coinCall, codecIn, fnCall, download, offerbook, settings, handlers>>

NextCodec == ContractScriptRoundTrip

SpecCodec == InitCodec /\ [][NextCodec]_vars

----------------------------------------------------------------------------
(* The functions of contracts.rs called one at a time: fnCall holds the    *)
(* name of the function and its arguments, and its result once it has      *)
(* returned.                                                               *)

Called(fn, args) == [fn |-> fn, args |-> args]
Returned(c, result) == [fn |-> c.fn, args |-> c.args, result |-> result]
Pending(fn) == fnCall.fn = fn /\ "result" \notin DOMAIN fnCall
Done(fn) == fnCall.fn = fn /\ "result" \in DOMAIN fnCall

ReadLocktime ==
    /\ Pending("read_locktime_from_contract")
    /\ fnCall' = Returned(fnCall, read_locktime_from_contract(fnCall.args.redeemscript))
    /\ UNCHANGED <<cache, signed, call, coin, coinCall, codecIn, codecOut, download, offerbook, settings, handlers>>

ParseScript ==
    /\ \/ Pending("read_hashvalue_from_contract")
       \/ Pending("read_hashlock_pubkey_from_contract")
       \/ Pending("read_timelock_pubkey_from_contract")
       \/ Pending("read_pubkeys_from_multisig_redeemscript")
    /\ LET script == fnCall.args.redeemscript
       IN fnCall' = Returned(fnCall,
              CASE fnCall.fn = "read_hashvalue_from_contract" ->
                       read_hashvalue_from_contract(script)
                [] fnCall.fn = "read_hashlock_pubkey_from_contract" ->
                       read_hashlock_pubkey_from_contract(script)
                [] fnCall.fn = "read_timelock_pubkey_from_contract" ->
                       read_timelock_pubkey_from_contract(script)
                [] OTHER -> read_pubkeys_from_multisig_redeemscript(script))
    /\ UNCHANGED <<cache, signed, call, coin, coinCall, codecIn, codecOut, download, offerbook, settings, handlers>>

\* the public key of privkey is tweaked as calculate_maker_pubkey_from_nonce
\* does, and privkey as the handlers do with add_assign
TweakBothSides ==
    /\ Pending("calculate_maker_pubkey_from_nonce")
    /\ fnCall' = Returned(fnCall,
           [pubkey |-> calculate_maker_pubkey_from_nonce(FromSecretKey(fnCall.args.privkey),
                                                         fnCall.args.nonce),
            privkey |-> AddAssign(fnCall.args.privkey, fnCall.args.nonce)])
    /\ UNCHANGED <<cache, signed, call, coin, coinCall, codecIn, codecOut, download, offerbook, settings, handlers>>

\* u64, scaled to 30 bits
U64Modulus == 2^30

\* a - b on u64: below zero it wraps in a build without overflow checks and
\* panics in a build with them
SubU64(a, b, overflow_checks) ==
    IF a >= b THEN Ok(a - b)
    ELSE IF overflow_checks THEN Panic
    ELSE Ok((a - b + U64Modulus) % U64Modulus)

\* no fee taken from the input's value
create_senders_contract_tx_NoFee(input, input_value, contract_redeemscript, overflow_checks) ==
    Ok(Transaction(<<TxIn(input)>>,
                   <<TxOut(redeemscript_to_scriptpubkey(contract_redeemscript), input_value)>>))

create_senders_contract_tx(input, input_value, contract_redeemscript, overflow_checks) ==
    LET value == SubU64(input_value, 1000, overflow_checks)
    IN IF ~value.ok THEN Panic
       ELSE Ok(Transaction(<<TxIn(input)>>,
                   <<TxOut(redeemscript_to_scriptpubkey(contract_redeemscript), value.val)>>))

create_receivers_contract_tx(input, input_value, contract_redeemscript, overflow_checks) ==
    create_senders_contract_tx(input, input_value, contract_redeemscript, overflow_checks)

\* the script looked at before the outpoint
validate_contract_tx_ScriptFirst(receivers_contract_tx, funding_outpoint, contract_redeemscript) ==
    IF Len(receivers_contract_tx.input) # 1 \/ Len(receivers_contract_tx.output) # 1
    THEN Err("invalid number of inputs or outputs")
    ELSE IF receivers_contract_tx.output[1].script_pubkey
                # redeemscript_to_scriptpubkey(contract_redeemscript)
    THEN Err("doesnt pay to requested contract")
    ELSE IF funding_outpoint.ok
            /\ receivers_contract_tx.input[1].previous_output # funding_outpoint.val
    THEN Err("not spending the funding outpoint")
    ELSE Ok(TRUE)

validate_contract_tx(receivers_contract_tx, funding_outpoint, contract_redeemscript) ==
    IF Len(receivers_contract_tx.input) # 1 \/ Len(receivers_contract_tx.output) # 1
    THEN Err("invalid number of inputs or outputs")
    ELSE IF funding_outpoint.ok
            /\ receivers_contract_tx.input[1].previous_output # funding_outpoint.val
    THEN Err("not spending the funding outpoint")
    ELSE IF receivers_contract_tx.output[1].script_pubkey
                # redeemscript_to_scriptpubkey(contract_redeemscript)
    THEN Err("doesnt pay to requested contract")
    ELSE Ok(TRUE)

\* both constructors on the same arguments
CreateContractTx ==
    /\ Pending("create_contract_tx")
    /\ LET a == fnCall.args
       IN fnCall' = Returned(fnCall,
              [senders |-> create_senders_contract_tx(a.input, a.input_value,
                               a.contract_redeemscript, a.overflow_checks),
               receivers |-> create_receivers_contract_tx(a.input, a.input_value,
                               a.contract_redeemscript, a.overflow_checks)])
    /\ UNCHANGED <<cache, signed, call, coin, coinCall, codecIn, codecOut, download, offerbook, settings, handlers>>

ValidateContractTx ==
    /\ Pending("validate_contract_tx")
    /\ fnCall' = Returned(fnCall,
           validate_contract_tx(fnCall.args.receivers_contract_tx,
                                fnCall.args.funding_outpoint,
                                fnCall.args.contract_redeemscript))
    /\ UNCHANGED <<cache, signed, call, coin, coinCall, codecIn, codecOut, download, offerbook, settings, handlers>>

\* sign_contract_tx, and verify_contract_tx_sig on the signature it returns
SignAndVerify ==
    /\ Pending("verify_contract_tx_sig")
    /\ LET a == fnCall.args
           sig == sign_contract_tx(a.signed.contract_tx, a.signed.multisig_redeemscript,
                                   a.signed.funding_amount, a.privkey)
       IN fnCall' = Returned(fnCall,
              [sig |-> sig,
               accepted |-> sig.ok /\ verify_contract_tx_sig(a.checked.contract_tx,
                                a.checked.multisig_redeemscript, a.checked.funding_amount,
                                a.pubkey, sig.val)])
    /\ UNCHANGED <<cache, signed, call, coin, coinCall, codecIn, codecOut, download, offerbook, settings, handlers>>

\* only the first output looked at
find_funding_output_FirstOnly(funding_tx, multisig_redeemscript) ==
    IF funding_tx.output # <<>>
       /\ funding_tx.output[1].script_pubkey = redeemscript_to_scriptpubkey(multisig_redeemscript)
    THEN Some(<<0, funding_tx.output[1]>>)
    ELSE None

\* the first output, in the order of the transaction, that pays the script,
\* with its index counted from zero
find_funding_output(funding_tx, multisig_redeemscript) ==
    LET multisig_spk == redeemscript_to_scriptpubkey(multisig_redeemscript)
        found == {i \in 1..Len(funding_tx.output) :
                     funding_tx.output[i].script_pubkey = multisig_spk}
    IN IF found = {} THEN None
       ELSE LET first == CHOOSE i \in found : \A j \in found : i <= j
            IN Some(<<first - 1, funding_tx.output[first]>>)

FindFundingOutput ==
    /\ Pending("find_funding_output")
    /\ fnCall' = Returned(fnCall,
           find_funding_output(fnCall.args.funding_tx, fnCall.args.multisig_redeemscript))
    /\ UNCHANGED <<cache, signed, call, coin, coinCall, codecIn, codecOut, download, offerbook, settings, handlers>>

\* a * b on u64: past the width it wraps in a build without overflow checks
\* and panics in a build with them
MulU64(a, b, overflow_checks) ==
    LET RECURSIVE Wrapped(_, _)
        Wrapped(x, y) ==
            IF y = 0 THEN 0
            ELSE LET twice == (2 * Wrapped(x, y \div 2)) % U64Modulus
                 IN IF y % 2 = 1 THEN (twice + x) % U64Modulus ELSE twice
    IN IF b = 0 \/ a <= (U64Modulus - 1) \div b THEN Ok(a * b)
       ELSE IF overflow_checks THEN Panic
       ELSE Ok(Wrapped(a, b))

\* a + b on u64, likewise
AddU64(a, b, overflow_checks) ==
    IF a + b < U64Modulus THEN Ok(a + b)
    ELSE IF overflow_checks THEN Panic
    ELSE Ok((a + b) % U64Modulus)

\* the two products added before the division
calculate_coinswap_fee_JointTruncation(absolute_fee_sat, amount_relative_fee_ppb, time_relative_fee_ppb, total_funding_amount, time_in_blocks, overflow_checks) ==
    LET amount_product == MulU64(total_funding_amount, amount_relative_fee_ppb, overflow_checks)
        time_product == MulU64(time_in_blocks, time_relative_fee_ppb, overflow_checks)
    IN IF ~amount_product.ok \/ ~time_product.ok THEN Panic
       ELSE AddU64(absolute_fee_sat,
                   (amount_product.val + time_product.val) \div 1000000000, overflow_checks)

\* absolute_fee_sat + (total_funding_amount * amount_relative_fee_ppb / 10^9)
\*                  + (time_in_blocks * time_relative_fee_ppb / 10^9),
\* evaluated from the left
calculate_coinswap_fee(absolute_fee_sat, amount_relative_fee_ppb, time_relative_fee_ppb, total_funding_amount, time_in_blocks, overflow_checks) ==
    LET amount_product == MulU64(total_funding_amount, amount_relative_fee_ppb, overflow_checks)
    IN IF ~amount_product.ok THEN Panic
       ELSE LET first_sum == AddU64(absolute_fee_sat, amount_product.val \div 1000000000,
                                    overflow_checks)
                time_product == MulU64(time_in_blocks, time_relative_fee_ppb, overflow_checks)
            IN IF ~first_sum.ok \/ ~time_product.ok THEN Panic
               ELSE AddU64(first_sum.val, time_product.val \div 1000000000, overflow_checks)

CalculateCoinswapFee ==
    /\ Pending("calculate_coinswap_fee")
    /\ LET a == fnCall.args
       IN fnCall' = Returned(fnCall,
              calculate_coinswap_fee(a.absolute_fee_sat, a.amount_relative_fee_ppb,
                  a.time_relative_fee_ppb, a.total_funding_amount, a.time_in_blocks,
                  a.overflow_checks))
    /\ UNCHANGED <<cache, signed, call, coin, coinCall, codecIn, codecOut, download, offerbook, settings, handlers>>

----------------------------------------------------------------------------
(* The specification of the function calls.                                *)

\* the calls of the functions, each with the arguments it is checked over
FunctionCalls ==
    LET \* Scripts for read_locktime_from_contract.  The contract redeemscript with
        \* another instruction in the place of the push of the locktime: every opcode
        \* from OP_PUSHNUM_NEG1 to OP_PUSHNUM_16 and two that push no number, pushes
        \* of 0 to 4 bytes (by their length byte and by OP_PUSHDATA1) and a push cut
        \* short of its data; and the contract cut after its first n bytes
        LocktimeCalls ==
            LET Bytes == {0, 1, 16, 255}
                Encode(ins) ==
                    IF ins.kind = "op" THEN <<ins.code>>
                    ELSE IF ins.kind = "push" THEN <<Len(ins.data)>> \o ins.data
                    ELSE IF ins.kind = "pushdata1" THEN <<OP_PUSHDATA1, Len(ins.data)>> \o ins.data
                    ELSE <<Len(ins.data) + 1>> \o ins.data
                WithInstruction(ins) ==
                    SubSeq(AContract, 1, 99) \o Encode(ins)
                    \o IF ins.kind = "cut" THEN <<>>
                       ELSE <<OP_ENDIF, OP_CSV, OP_DROP, OP_ROT, OP_EQUALVERIFY, OP_CHECKSIG>>
                Instrs ==
                    {[kind |-> "op", code |-> code, data |-> <<>>] :
                        code \in (OP_PUSHNUM_NEG1..OP_PUSHNUM_16) \cup {OP_DROP, OP_CSV}}
                    \cup {[kind |-> k, code |-> 0, data |-> d] :
                            k \in {"push", "pushdata1"},
                            d \in {<<>>} \cup {<<x>> : x \in Bytes}
                                  \cup {<<x, y>> : x, y \in Bytes}
                                  \cup {<<x, y, z>> : x, y \in {1, 255}, z \in {0, 1}}
                                  \cup {<<1, 0, 0, 0>>}}
                    \cup {[kind |-> "cut", code |-> 0, data |-> <<1>>]}
            IN {Called("read_locktime_from_contract",
                       [instruction |-> ins, redeemscript |-> WithInstruction(ins)]) :
                   ins \in Instrs}
               \cup {Called("read_locktime_from_contract",
                            [instruction |-> [kind |-> "none", code |-> 0, data |-> <<>>],
                             redeemscript |-> SubSeq(AContract, 1, n)]) : n \in {0, 26, 64, 99}}
        \* Scripts for the parsers that read at fixed offsets: the contract
        \* redeemscript and the 2-of-2 cut around each offset, whole, and with the
        \* bytes of a key replaced by bytes that are no point
        ParserCalls ==
            LET Parsers == {"read_hashvalue_from_contract", "read_hashlock_pubkey_from_contract",
                            "read_timelock_pubkey_from_contract",
                            "read_pubkeys_from_multisig_redeemscript"}
                NoPoint == Repeat(0, 33)
                Scripts ==
                    {SubSeq(AContract, 1, n) :
                        n \in {0, 4, 23, 24, 25, 27, 59, 60, 61, 65, 97, 98, 99, Len(AContract)}}
                    \cup {SubSeq(AMultisig, 1, n) : n \in {2, 35, 36, 68, 69, 70, Len(AMultisig)}}
                    \cup {Splice(AContract, 27, 60, NoPoint), Splice(AContract, 65, 98, NoPoint),
                          Splice(AMultisig, 2, 35, NoPoint), Splice(AMultisig, 36, 69, NoPoint)}
            IN {Called(parser, [redeemscript |-> script]) : parser \in Parsers, script \in Scripts}
        \* every private key with every nonce
        TweakCalls ==
            {Called("calculate_maker_pubkey_from_nonce", [privkey |-> d, nonce |-> n]) :
                d, n \in SecretKeys}
        \* input values on both sides of the fee, in both builds
        CreateContractTxCalls ==
            {Called("create_contract_tx",
                    [input |-> o, input_value |-> v, contract_redeemscript |-> cs,
                     overflow_checks |-> oc]) :
                o \in Outpoints, v \in {0, 999, 1000, 1001, FundingValue, U64Modulus - 1},
                cs \in {AContract, AMultisig}, oc \in BOOLEAN}
        \* transactions of zero to two inputs and outputs, spending either outpoint
        \* and paying either script, checked with and without a funding outpoint
        ValidateContractTxCalls ==
            LET Ins == {TxIn(o) : o \in Outpoints}
                Outs == {TxOut(redeemscript_to_scriptpubkey(cs), FundingValue - 1000) :
                            cs \in {AContract, AMultisig}}
                Txs == {Transaction(<<i>>, <<o>>) : i \in Ins, o \in Outs}
                       \cup {Transaction(<<>>, <<AnOutput>>),
                             Transaction(<<AnInput, AnInput>>, <<AnOutput>>),
                             Transaction(<<AnInput>>, <<>>),
                             Transaction(<<AnInput>>, <<AnOutput, AnOutput>>),
                             Transaction(<<>>, <<>>)}
            IN {Called("validate_contract_tx",
                       [receivers_contract_tx |-> tx, funding_outpoint |-> fo,
                        contract_redeemscript |-> AContract]) :
                   tx \in Txs, fo \in {None} \cup {Some(o) : o \in Outpoints}}
        \* a signature by every key over one of two transactions, scripts and amounts,
        \* checked under every key over one of the same
        SignatureCalls ==
            LET Txs == {Transaction(<<TxIn(o)>>, <<AnOutput>>) : o \in Outpoints}
                Signed == [contract_tx : Txs, multisig_redeemscript : {AMultisig, AContract},
                           funding_amount : {FundingValue, FundingValue + 1}]
            IN {Called("verify_contract_tx_sig",
                       [signed |-> m, privkey |-> d, checked |-> c, pubkey |-> p]) :
                   m \in Signed, d \in SecretKeys, c \in Signed, p \in PublicKeys}
        \* funding transactions of up to three outputs, each paying the multisig or
        \* another script one of two values
        FundingOutputCalls ==
            LET Outs == {TxOut(redeemscript_to_scriptpubkey(rs), v) :
                            rs \in {AMultisig, AContract}, v \in {FundingValue, FundingValue + 1}}
                Outputs == UNION {[1..n -> Outs] : n \in 0..3}
            IN {Called("find_funding_output",
                       [funding_tx |-> Transaction(<<AnInput>>, outs),
                        multisig_redeemscript |-> AMultisig]) : outs \in Outputs}
        \* fees whose products lie below, at and above 10^9, and past the width
        CoinswapFeeCalls ==
            {Called("calculate_coinswap_fee",
                    [absolute_fee_sat |-> a, amount_relative_fee_ppb |-> ap,
                     time_relative_fee_ppb |-> tp, total_funding_amount |-> f,
                     time_in_blocks |-> t, overflow_checks |-> oc]) :
                a \in {0, 1000, U64Modulus - 1}, ap \in {0, 19999, 20000, 35000},
                tp \in {0, 50000000, 99999999}, f \in {0, 30000, 50000}, t \in {0, 10, 20},
                oc \in BOOLEAN}
    IN LocktimeCalls \cup ParserCalls \cup TweakCalls \cup CreateContractTxCalls
       \cup ValidateContractTxCalls \cup SignatureCalls
       \cup FundingOutputCalls \cup CoinswapFeeCalls

InitFunctions ==
    /\ cache = [o \in Outpoints |-> NoContract]
    /\ signed = {}
    /\ call = Idle
    /\ coin = NoCoin
    /\ coinCall = Idle
    /\ codecIn = NoCodec
    /\ codecOut = NoCodec
    /\ fnCall \in FunctionCalls
    /\ download = NoDownload
    /\ offerbook = NoOfferbook
    /\ settings = [SETTINGS |-> None, log |-> <<>>]
    /\ handlers = <<>>

NextFunctions ==
    \/ ReadLocktime
    \/ ParseScript
    \/ TweakBothSides
    \/ CreateContractTx
    \/ ValidateContractTx
    \/ SignAndVerify
    \/ FindFundingOutput
    \/ CalculateCoinswapFee

SpecFunctions == InitFunctions /\ [][NextFunctions]_vars

----------------------------------------------------------------------------
(* SignSendersContractTx requests handled at the same time on one wallet.  *)
(* handlers is the sequence of the calls of                                 *)
(* validate_and_sign_senders_contract_tx, each at a place of the function.  *)

\* how many requests are handled at the same time
MaxRequests == 2

\* the wallet lent to every call at once
WalletFree_Shared(tasks) == TRUE

\* wallet: &mut Wallet is an exclusive borrow for the time of the call: no
\* other call holds the wallet
WalletFree(tasks) ==
    \A t \in DOMAIN tasks : tasks[t].pc \notin {"lookup", "insert"}

\* requests that the maker would sign alone, for either outpoint, for
\* contracts of two hashlock keys and two locktimes, and with a multisig nonce
\* that cannot be added to the wallet's key
InitHandlers ==
    /\ cache = [o \in Outpoints |-> NoContract]
    /\ signed = {}
    /\ call = Idle
    /\ coin = NoCoin
    /\ coinCall = Idle
    /\ codecIn = NoCodec
    /\ codecOut = NoCodec
    /\ fnCall = NoCall
    /\ download = NoDownload
    /\ offerbook = NoOfferbook
    /\ settings = [SETTINGS |-> None, log |-> <<>>]
    /\ LET Requests ==
               {r \in SignRequests :
                   /\ r.hashlock_key_nonce \in GoodNonces
                   /\ r.multisig_key_nonce \in Nonces \ {2}
                   /\ \E o \in Outpoints :
                         r.senders_contract_tx =
                             Transaction(<<TxIn(o)>>,
                                 <<TxOut(redeemscript_to_scriptpubkey(
                                             create_contract_redeemscript(
                                                 MakerKey(r.hashlock_key_nonce), TakerPubkey,
                                                 TheHashvalue, r.locktime)),
                                         FundingValue - 1000)>>)}
       IN \E requests \in UNION {[1..n -> Requests] : n \in 1..MaxRequests} :
              handlers = [t \in DOMAIN requests |->
                             [req |-> requests[t], pc |-> "waiting", before |-> cache,
                              result |-> None, after |-> cache]]

\* the call begins: it holds the wallet until it returns
BorrowWallet ==
    /\ \E t \in DOMAIN handlers :
           /\ handlers[t].pc = "waiting"
           /\ WalletFree(handlers)
           /\ handlers' = [handlers EXCEPT ![t].pc = "lookup", ![t].before = cache]
    /\ UNCHANGED <<cache, signed, call, coin, coinCall, codecIn, codecOut, fnCall, download,
                   offerbook, settings>>

\* the count of inputs and outputs and does_prevout_match_cached_contract
LookupCache ==
    /\ \E t \in DOMAIN handlers :
           /\ handlers[t].pc = "lookup"
           /\ LET tx == handlers[t].req.senders_contract_tx
                  counted == SendersContractCountCheck(tx)
                  matched == IF counted.ok THEN SendersContractCacheCheck(cache, tx)
                             ELSE counted
              IN handlers' = IF matched.ok
                             THEN [handlers EXCEPT ![t].pc = "insert"]
                             ELSE [handlers EXCEPT ![t].pc = "done", ![t].result = matched,
                                                   ![t].after = cache]
    /\ UNCHANGED <<cache, signed, call, coin, coinCall, codecIn, codecOut, fnCall, download,
                   offerbook, settings>>

\* the hashlock key, is_contract_out_valid, add_prevout_and_contract_to_cache
\* and the signature; the call returns
InsertAndSign ==
    /\ \E t \in DOMAIN handlers :
           /\ handlers[t].pc = "insert"
           /\ LET req == handlers[t].req
                  tx == req.senders_contract_tx
                  hashlock_pubkey_from_nonce ==
                      HashlockPubkeyFromNonce(req.tweakable_privkey, req.hashlock_key_nonce)
                  valid == IF ~hashlock_pubkey_from_nonce.ok THEN hashlock_pubkey_from_nonce
                           ELSE is_contract_out_valid(tx.output[1],
                                    hashlock_pubkey_from_nonce.val, req.timelock_pubkey,
                                    req.hashvalue, req.locktime, req.minimum_locktime)
                  result == IF valid.ok THEN SignWithMultisigNonce(req) ELSE valid
              IN /\ cache' = IF valid.ok
                             THEN add_prevout_and_contract_to_cache(cache,
                                      tx.input[1].previous_output, tx.output[1].script_pubkey)
                             ELSE cache
                 /\ signed' = IF result.ok
                              THEN signed \cup {<<tx.input[1].previous_output,
                                                  tx.output[1].script_pubkey>>}
                              ELSE signed
                 /\ handlers' = [handlers EXCEPT ![t].pc = "done", ![t].result = result,
                                                 ![t].after = cache']
    /\ UNCHANGED <<call, coin, coinCall, codecIn, codecOut, fnCall, download, offerbook,
                   settings>>

NextHandlers ==
    \/ BorrowWallet
    \/ LookupCache
    \/ InsertAndSign

SpecHandlers == InitHandlers /\ [][NextHandlers]_vars

----------------------------------------------------------------------------
(* offerbook_sync.rs: sync_offerbook_with_addresses and the download tasks  *)
(* it spawns.  download is the sequence of the spawned tasks, each at a     *)
(* place of download_maker_offer; offerbook is the caller, with the channel.*)

\* taker_protocol::FIRST_CONNECT_ATTEMPTS
FIRST_CONNECT_ATTEMPTS == 2
\* the longest maker_addresses
MaxAddresses == 2
\* the capacity of mpsc::channel, 100 in the code
ChannelCapacity == 1

\* one retry more than the constant allows
MayRetry_OneMore(ii) == ii <= FIRST_CONNECT_ATTEMPTS + 1

\* if ii <= FIRST_CONNECT_ATTEMPTS
MayRetry(ii) == ii <= FIRST_CONNECT_ATTEMPTS

\* None pushed as an entry
Collected_All(result, message) == Append(result, message)

\* if let Some(offer_addr) = ... { result.push(offer_addr) }
Collected(result, message) ==
    IF message.ok THEN Append(result, message.val) ELSE result

InitOfferbook ==
    /\ cache = [o \in Outpoints |-> NoContract]
    /\ signed = {}
    /\ call = Idle
    /\ coin = NoCoin
    /\ coinCall = Idle
    /\ codecIn = NoCodec
    /\ codecOut = NoCodec
    /\ fnCall = NoCall
    /\ download = <<>>
    /\ settings = [SETTINGS |-> None, log |-> <<>>]
    /\ handlers = <<>>
    /\ \E maker_addresses \in UNION {[1..n -> {"maker1", "maker2"}] : n \in 0..MaxAddresses} :
           offerbook = [pc |-> "running", maker_addresses |-> maker_addresses,
                        channel |-> <<>>, received |-> 0, result |-> <<>>]

\* tokio::spawn of the task of the next address; the task starts with ii = 0
Spawn ==
    /\ offerbook.pc = "running"
    /\ Len(download) < Len(offerbook.maker_addresses)
    /\ download' = Append(download,
           [address |-> offerbook.maker_addresses[Len(download) + 1], pc |-> "loop",
            ii |-> 0, attempts |-> 0, last |-> "none", outcome |-> None])
    /\ UNCHANGED <<cache, signed, call, coin, coinCall, codecIn, codecOut, fnCall, offerbook, settings, handlers>>

\* the top of the loop: ii += 1 and the select! of an attempt and its deadline
BeginAttempt ==
    /\ \E t \in DOMAIN download :
           /\ download[t].pc = "loop"
           /\ download' = [download EXCEPT ![t].pc = "attempt", ![t].ii = @ + 1,
                                           ![t].attempts = @ + 1]
    /\ UNCHANGED <<cache, signed, call, coin, coinCall, codecIn, codecOut, fnCall, offerbook, settings, handlers>>

\* the attempt returns Ok(offer): return Some(OfferAndAddress { offer, address })
AttemptOk ==
    /\ \E t \in DOMAIN download, offer \in {"offer"} :
           /\ download[t].pc = "attempt"
           /\ download' = [download EXCEPT ![t].pc = "send", ![t].last = "ok",
                  ![t].outcome = Some([offer |-> offer, address |-> download[t].address])]
    /\ UNCHANGED <<cache, signed, call, coin, coinCall, codecIn, codecOut, fnCall, offerbook, settings, handlers>>

\* the attempt returns Err: sleep and continue, or return None
AttemptErr ==
    /\ \E t \in DOMAIN download :
           /\ download[t].pc = "attempt"
           /\ download' = [download EXCEPT ![t].last = "error",
                  ![t].pc = IF MayRetry(download[t].ii) THEN "sleep" ELSE "send"]
    /\ UNCHANGED <<cache, signed, call, coin, coinCall, codecIn, codecOut, fnCall, offerbook, settings, handlers>>

\* the deadline comes first: continue, or return None
AttemptTimeout ==
    /\ \E t \in DOMAIN download :
           /\ download[t].pc = "attempt"
           /\ download' = [download EXCEPT ![t].last = "timeout",
                  ![t].pc = IF MayRetry(download[t].ii) THEN "loop" ELSE "send"]
    /\ UNCHANGED <<cache, signed, call, coin, coinCall, codecIn, codecOut, fnCall, offerbook, settings, handlers>>

\* sleep(FIRST_CONNECT_SLEEP_DELAY_SEC) ends: continue
Sleep ==
    /\ \E t \in DOMAIN download :
           /\ download[t].pc = "sleep"
           /\ download' = [download EXCEPT ![t].pc = "loop"]
    /\ UNCHANGED <<cache, signed, call, coin, coinCall, codecIn, codecOut, fnCall, offerbook, settings, handlers>>

\* offers_writer.send(..).await: waits while the channel is full
Send ==
    /\ \E t \in DOMAIN download :
           /\ download[t].pc = "send"
           /\ Len(offerbook.channel) < ChannelCapacity
           /\ offerbook' = [offerbook EXCEPT !.channel = Append(@, download[t].outcome)]
           /\ download' = [download EXCEPT ![t].pc = "done"]
    /\ UNCHANGED <<cache, signed, call, coin, coinCall, codecIn, codecOut, fnCall, settings, handlers>>

\* nothing received before every task has sent
Recv_AfterTasksDone ==
    /\ offerbook.pc = "running"
    /\ Len(download) = Len(offerbook.maker_addresses)
    /\ \A t \in DOMAIN download : download[t].pc = "done"
    /\ offerbook.received < Len(offerbook.maker_addresses)
    /\ offerbook.channel # <<>>
    /\ offerbook' = [offerbook EXCEPT !.channel = Tail(@), !.received = @ + 1,
                         !.result = Collected(@, Head(offerbook.channel))]
    /\ UNCHANGED <<cache, signed, call, coin, coinCall, codecIn, codecOut, fnCall, download, settings, handlers>>

\* offers_reader.recv().await.unwrap(), once for each address, after the
\* tasks are spawned
Recv ==
    /\ offerbook.pc = "running"
    /\ Len(download) = Len(offerbook.maker_addresses)
    /\ offerbook.received < Len(offerbook.maker_addresses)
    /\ offerbook.channel # <<>>
    /\ offerbook' = [offerbook EXCEPT !.channel = Tail(@), !.received = @ + 1,
                         !.result = Collected(@, Head(offerbook.channel))]
    /\ UNCHANGED <<cache, signed, call, coin, coinCall, codecIn, codecOut, fnCall, download, settings, handlers>>

\* the result is returned after as many messages as there are addresses
Return ==
    /\ offerbook.pc = "running"
    /\ Len(download) = Len(offerbook.maker_addresses)
    /\ offerbook.received = Len(offerbook.maker_addresses)
    /\ offerbook' = [offerbook EXCEPT !.pc = "returned"]
    /\ UNCHANGED <<cache, signed, call, coin, coinCall, codecIn, codecOut, fnCall, download, settings, handlers>>

NextOfferbook ==
    \/ Spawn
    \/ BeginAttempt
    \/ AttemptOk
    \/ AttemptErr
    \/ AttemptTimeout
    \/ Sleep
    \/ Send
    \/ Recv
    \/ Return

SpecOfferbook == InitOfferbook /\ [][NextOfferbook]_vars

\* the runtime runs a task that can take a step, and an attempt ends, by its
\* answer or at its deadline
FairSpecOfferbook == SpecOfferbook /\ WF_vars(NextOfferbook)

----------------------------------------------------------------------------
(* settings.rs: the static SETTINGS, a OnceLock, and the two functions of   *)
(* Settings that use it.  settings.log is the history of their calls.       *)

\* how many calls are followed
MaxCalls == 3

\* SETTINGS.get().as_ref().expect("Settings not initialized")
Settings_global(cell) ==
    IF cell = None THEN Panic ELSE Ok(cell.val)

\* the record stored over the one that is there
Settings_init_settings_Overwrite(cell, datadir, file) ==
    IF file = "malformed" THEN [result |-> Panic, SETTINGS |-> cell]
    ELSE LET made == [network |-> IF file = "absent" THEN "regtest" ELSE file,
                      datadir |-> Some(datadir)]
         IN [result |-> Ok(made), SETTINGS |-> Some(made)]

\* The record is built from Settings::default(), teleport.conf in datadir
\* when there is one (file is what it says of the network) and datadir
\* itself; a file that cannot be read as settings panics in build().unwrap().
\* OnceLock::set stores the record if none is stored and returns Err
\* otherwise, which panics in unwrap(); the result is Settings::global().
Settings_init_settings(cell, datadir, file) ==
    IF file = "malformed" THEN [result |-> Panic, SETTINGS |-> cell]
    ELSE LET made == [network |-> IF file = "absent" THEN "regtest" ELSE file,
                      datadir |-> Some(datadir)]
         IN IF cell # None THEN [result |-> Panic, SETTINGS |-> cell]
            ELSE [result |-> Settings_global(Some(made)), SETTINGS |-> Some(made)]

InitSettings ==
    /\ Len(settings.log) < MaxCalls
    /\ \E datadir \in {"datadir1", "datadir2"}, file \in {"absent", "signet", "malformed"} :
           LET out == Settings_init_settings(settings.SETTINGS, datadir, file)
           IN settings' = [SETTINGS |-> out.SETTINGS,
                           log |-> Append(settings.log,
                                      [fn |-> "init_settings", datadir |-> datadir,
                                       file |-> file, result |-> out.result])]
    /\ UNCHANGED <<cache, signed, call, coin, coinCall, codecIn, codecOut, fnCall, download,
                   offerbook, handlers>>

GlobalSettings ==
    /\ Len(settings.log) < MaxCalls
    /\ settings' = [settings EXCEPT !.log =
                       Append(@, [fn |-> "global", datadir |-> "", file |-> "",
                                  result |-> Settings_global(settings.SETTINGS)])]
    /\ UNCHANGED <<cache, signed, call, coin, coinCall, codecIn, codecOut, fnCall, download,
                   offerbook, handlers>>

NextSettings ==
    \/ InitSettings
    \/ GlobalSettings

SpecSettings == Init /\ [][NextSettings]_vars

----------------------------------------------------------------------------
(* What the claims speak of, stated on the requests themselves.            *)

Fails(result, msg) == ~result.ok /\ result.err = msg

IsSign == call.op = "sign"
IsProof == call.op = "proof"

\* a contract transaction with one input and one output, its funding
\* outpoint and its contract script pubkey
HasOneInOneOut(tx) == Len(tx.input) = 1 /\ Len(tx.output) = 1
FundingOutpointOf(tx) == tx.input[1].previous_output
ContractSpkOf(tx) == tx.output[1].script_pubkey

\* the cache holds another script pubkey for the outpoint
CachedOtherwise(c, outpoint, spk) == c[outpoint] # NoContract /\ c[outpoint] # spk

\* the outpoint a proof of funding names, and the script pubkey of its contract
ProofOutpoint(req) == OutPoint(req.funding_tx.txid, req.funding_output_index)
ProofContractSpk(req) == redeemscript_to_scriptpubkey(req.contract_redeemscript)

\* tweakable_point + nonce * G, 0 when it is the point at infinity
MakerPoint(nonce) == (WalletTweakablePoint + FromSecretKey(nonce)) % CurveOrder
\* tweakable_privkey + nonce, 0 when it is no secret key
MakerScalar(nonce) == (WalletTweakablePrivkey + nonce) % CurveOrder

\* the node reports the output with at least one confirmation
FundingConfirmed(req) == req.tx_out.kind = "some" /\ req.tx_out.confirmations >= 1

\* the standard 2-of-2: OP_2 <33 bytes> <33 bytes> OP_2 OP_CHECKMULTISIG
StandardTemplate == MultisigScriptOfBytes(PUB_PLACEHOLDER, PUB_PLACEHOLDER)
InPubkeySlot(i) == i \in 3..35 \/ i \in 37..69
MatchesTemplate(ms) ==
    /\ Len(ms) = Len(StandardTemplate)
    /\ \A i \in 1..Len(StandardTemplate) : ~InPubkeySlot(i) => ms[i] = StandardTemplate[i]

\* the script is the 2-of-2 of the keys p1 and p2
IsMultisigOf(ms, p1, p2) ==
    /\ MatchesTemplate(ms)
    /\ SubSeq(ms, 3, 35) = SerializePublicKey(p1)
    /\ SubSeq(ms, 37, 69) = SerializePublicKey(p2)

\* the maker's key for the multisig nonce is one of the keys of the multisig
MakerKeyInMultisig(req) ==
    \E p1, p2 \in PublicKeys :
        /\ IsMultisigOf(req.multisig_redeemscript, p1, p2)
        /\ MakerPoint(req.multisig_key_nonce) \in {p1, p2}

\* the contract gives the maker the time to react, as integers
LocktimeMargin(req) ==
    LET locktime == read_locktime_from_contract(req.contract_redeemscript)
    IN locktime.ok /\ locktime.val - req.next_locktime >= req.min_contract_react_time

\* the hashlock key of the contract is the maker's key for the hashlock nonce
HashlockKeyDerived(req) ==
    LET k == read_hashlock_pubkey_from_contract(req.contract_redeemscript)
    IN k.ok /\ k.val = MakerPoint(req.hashlock_key_nonce)

----------------------------------------------------------------------------
(* The claims about the maker's handlers.                                  *)

\* C1: no two calls of validate_and_sign_senders_contract_tx that returned a
\* signature named the same funding outpoint with different contract script
\* pubkeys; a call (of a contract transaction with one input and one output)
\* whose funding outpoint is cached with another script pubkey fails with
\* "taker attempting multiple contract attack, rejecting".
C1_OneContractPerOutpoint ==
    /\ \A a, b \in signed : a[1] = b[1] => a[2] = b[2]
    /\ (IsSign /\ HasOneInOneOut(call.req.senders_contract_tx)
        /\ CachedOtherwise(call.before, FundingOutpointOf(call.req.senders_contract_tx),
                           ContractSpkOf(call.req.senders_contract_tx)))
       => Fails(call.result, "taker attempting multiple contract attack, rejecting")

\* a second contract for an outpoint a signature was given for is rejected
C1_Witness ==
    /\ IsSign /\ HasOneInOneOut(call.req.senders_contract_tx)
    /\ \E a \in signed :
          /\ a[1] = FundingOutpointOf(call.req.senders_contract_tx)
          /\ a[2] # ContractSpkOf(call.req.senders_contract_tx)
    /\ Fails(call.result, "taker attempting multiple contract attack, rejecting")

\* C2 as stated: verify_proof_of_funding fails with "provided contract does
\* not match sender contract tx, rejecting" whenever the cache maps the
\* outpoint of the proof to another script pubkey than that of its contract.
C2_AlwaysThisError ==
    (IsProof /\ CachedOtherwise(call.before, ProofOutpoint(call.req),
                                ProofContractSpk(call.req)))
    => Fails(call.result, "provided contract does not match sender contract tx, rejecting")

\* C2 amended: whenever the cache maps the outpoint of the proof to another
\* script pubkey, verify_proof_of_funding fails; the error is "provided
\* contract does not match sender contract tx, rejecting" when the checks
\* before the cache's pass (funding confirmed, multisig template, maker key
\* in the multisig, locktime margin, hashlock key).
C2_CacheSeenByProof ==
    (IsProof /\ CachedOtherwise(call.before, ProofOutpoint(call.req),
                                ProofContractSpk(call.req)))
    => /\ ~call.result.ok
       /\ (FundingConfirmed(call.req) /\ MakerKeyInMultisig(call.req)
           /\ LocktimeMargin(call.req) /\ HashlockKeyDerived(call.req))
          => Fails(call.result,
                   "provided contract does not match sender contract tx, rejecting")

\* the entry of an earlier signature makes a proof with another contract fail
C2_Witness ==
    /\ IsProof
    /\ \E a \in signed : a[1] = ProofOutpoint(call.req) /\ a[2] # ProofContractSpk(call.req)
    /\ Fails(call.result, "provided contract does not match sender contract tx, rejecting")

\* C3: verify_proof_of_funding returns Ok only when contract_locktime -
\* next_locktime >= min_contract_react_time as integers, and a contract
\* locktime below next_locktime is rejected with "locktime too short" (when
\* the checks before the locktime's pass).
C3_LocktimeMargin ==
    IsProof =>
        /\ call.result.ok => LocktimeMargin(call.req)
        /\ (/\ FundingConfirmed(call.req) /\ MakerKeyInMultisig(call.req)
            /\ read_locktime_from_contract(call.req.contract_redeemscript).ok
            /\ read_locktime_from_contract(call.req.contract_redeemscript).val
                 < call.req.next_locktime)
           => Fails(call.result, "locktime too short")

\* C4: verify_proof_of_funding returns Ok only if the node reports the output
\* with at least one confirmation; a missing output gives "funding tx output
\* doesnt exist", one with no confirmation "funding tx not confirmed", and a
\* failure of the RPC is passed on.
C4_FundingConfirmed ==
    IsProof =>
        /\ call.result.ok => FundingConfirmed(call.req)
        /\ call.req.tx_out.kind = "none"
           => Fails(call.result, "funding tx output doesnt exist")
        /\ (call.req.tx_out.kind = "some" /\ call.req.tx_out.confirmations < 1)
           => Fails(call.result, "funding tx not confirmed")
        /\ call.req.tx_out.kind = "error" => call.result = RpcError

\* an output without a confirmation is rejected
C4_Witness ==
    /\ IsProof
    /\ call.req.tx_out.kind = "some" /\ call.req.tx_out.confirmations = 0
    /\ Fails(call.result, "funding tx not confirmed")

\* C5 as stated: Ok only if the multisig redeemscript matches the template; a
\* length mismatch is rejected with "wrong multisig_redeemscript length", a
\* byte mismatch with "multisig_redeemscript not matching template".
C5_AlwaysTheseErrors ==
    IsProof =>
        /\ call.result.ok => MatchesTemplate(call.req.multisig_redeemscript)
        /\ Len(call.req.multisig_redeemscript) # Len(StandardTemplate)
           => Fails(call.result, "wrong multisig_redeemscript length")
        /\ (/\ Len(call.req.multisig_redeemscript) = Len(StandardTemplate)
            /\ ~MatchesTemplate(call.req.multisig_redeemscript))
           => Fails(call.result, "multisig_redeemscript not matching template")

\* C5 amended: Ok only if the multisig redeemscript matches the template;
\* when the funding output is confirmed, a length mismatch is rejected with
\* "wrong multisig_redeemscript length" (no slice is taken: no panic) and a
\* byte mismatch with "multisig_redeemscript not matching template".
C5_MultisigTemplate ==
    IsProof =>
        /\ call.result.ok => MatchesTemplate(call.req.multisig_redeemscript)
        /\ ~MatchesTemplate(call.req.multisig_redeemscript) => ~call.result.ok
        /\ (/\ FundingConfirmed(call.req)
            /\ Len(call.req.multisig_redeemscript) # Len(StandardTemplate))
           => Fails(call.result, "wrong multisig_redeemscript length")
        /\ (/\ FundingConfirmed(call.req)
            /\ Len(call.req.multisig_redeemscript) = Len(StandardTemplate)
            /\ ~MatchesTemplate(call.req.multisig_redeemscript))
           => Fails(call.result, "multisig_redeemscript not matching template")

\* a 1-of-2 script of the right length is rejected
C5_Witness ==
    /\ IsProof /\ FundingConfirmed(call.req)
    /\ Len(call.req.multisig_redeemscript) = Len(StandardTemplate)
    /\ call.req.multisig_redeemscript[1] # StandardTemplate[1]
    /\ Fails(call.result, "multisig_redeemscript not matching template")

\* C6: Ok only if the maker's key tweakable_point + multisig_key_nonce * G is
\* one of the two keys of the multisig; then other_pubkey is the other key of
\* the pair, my_privkey is tweakable_privkey + multisig_key_nonce, and
\* {my_privkey * G, other_pubkey} is the pair of the multisig.
C6_MultisigKeys ==
    (IsProof /\ call.result.ok) =>
        \E p1, p2 \in PublicKeys :
            /\ IsMultisigOf(call.req.multisig_redeemscript, p1, p2)
            /\ MakerPoint(call.req.multisig_key_nonce) \in {p1, p2}
            /\ call.result.val.other_pubkey =
                   IF p1 = MakerPoint(call.req.multisig_key_nonce) THEN p2 ELSE p1
            /\ call.result.val.my_privkey = MakerScalar(call.req.multisig_key_nonce)
            /\ call.result.val.my_privkey \in SecretKeys
            /\ {FromSecretKey(call.result.val.my_privkey), call.result.val.other_pubkey}
                   = {p1, p2}

\* a proof whose multisig holds the maker's key second, and another key first
C6_Witness ==
    /\ IsProof /\ call.result.ok
    /\ \E p1, p2 \in PublicKeys :
          /\ IsMultisigOf(call.req.multisig_redeemscript, p1, p2)
          /\ p1 # p2
          /\ p2 = MakerPoint(call.req.multisig_key_nonce)
          /\ call.result.val.other_pubkey = p1

\* C7 as stated: Ok only if the hashlock key of the contract is
\* tweakable_point + hashlock_key_nonce * G; otherwise the call fails with
\* "contract hashlock pubkey doesnt match key derived from nonce"; the
\* hashlock privkey returned is tweakable_privkey + hashlock_key_nonce.
C7_AlwaysThisError ==
    IsProof =>
        /\ call.result.ok =>
              /\ HashlockKeyDerived(call.req)
              /\ call.result.val.hashlock_privkey = MakerScalar(call.req.hashlock_key_nonce)
        /\ ~HashlockKeyDerived(call.req)
           => Fails(call.result,
                    "contract hashlock pubkey doesnt match key derived from nonce")

\* C7 amended: Ok only if the hashlock key of the contract is tweakable_point
\* + hashlock_key_nonce * G, and then the hashlock privkey returned is
\* tweakable_privkey + hashlock_key_nonce; otherwise the call fails, with
\* "contract hashlock pubkey doesnt match key derived from nonce" when the
\* checks before it pass (funding confirmed, multisig template, maker key in
\* the multisig, locktime margin), the contract holds a hashlock key and the
\* key of the nonce exists.
C7_HashlockKey ==
    IsProof =>
        /\ call.result.ok =>
              /\ HashlockKeyDerived(call.req)
              /\ call.result.val.hashlock_privkey = MakerScalar(call.req.hashlock_key_nonce)
              /\ call.result.val.hashlock_privkey \in SecretKeys
        /\ ~HashlockKeyDerived(call.req) => ~call.result.ok
        /\ (/\ ~HashlockKeyDerived(call.req)
            /\ FundingConfirmed(call.req) /\ MakerKeyInMultisig(call.req)
            /\ LocktimeMargin(call.req)
            /\ read_hashlock_pubkey_from_contract(call.req.contract_redeemscript).ok
            /\ MakerPoint(call.req.hashlock_key_nonce) # 0)
           => Fails(call.result,
                    "contract hashlock pubkey doesnt match key derived from nonce")

\* a contract with the maker's key for another nonce is rejected
C7_Witness ==
    /\ IsProof
    /\ read_hashlock_pubkey_from_contract(call.req.contract_redeemscript).ok
    /\ MakerPoint(call.req.hashlock_key_nonce) # 0
    /\ ~HashlockKeyDerived(call.req)
    /\ Fails(call.result, "contract hashlock pubkey doesnt match key derived from nonce")

----------------------------------------------------------------------------
(* The claims about the swap-coins.                                        *)

\* the party or parties whose private key the coin takes
CounterpartyKeys(self) ==
    IF self.variant = "watchonly" THEN {self.sender_pubkey, self.receiver_pubkey}
    ELSE {self.other_pubkey}

\* the signature was made over the contract transaction of the coin, for its
\* multisig and its amount, with the private key of pubkey
MadeOverContractTxBy(self, sig, pubkey) ==
    \E k \in SecretKeys :
        /\ FromSecretKey(k) = pubkey
        /\ sig = Sign(SignatureHash(self.contract_tx,
                                    create_multisig_redeemscript(self.sender_pubkey,
                                                                 self.receiver_pubkey),
                                    self.funding_amount), k)

\* C8: on every variant of swap-coin, apply_privkey with a private key whose
\* public key is not the counterparty's returns "not correct privkey" and
\* leaves the coin as it was; the other_privkey of an Incoming coin is absent
\* or a scalar whose public key is other_pubkey.
C8_ApplyPrivkeyChecked ==
    /\ (/\ coinCall.op = "apply_privkey"
        /\ FromSecretKey(coinCall.privkey) \notin CounterpartyKeys(coinCall.before))
       => /\ Fails(coinCall.result, "not correct privkey")
          /\ coin = coinCall.before
    /\ coin.variant = "incoming"
       => \/ coin.other_privkey = None
          \/ /\ coin.other_privkey.ok
             /\ coin.other_privkey.val \in SecretKeys
             /\ FromSecretKey(coin.other_privkey.val) = coin.other_pubkey

\* an Incoming coin rejects a key that is not the other party's
C8_Witness ==
    /\ coinCall.op = "apply_privkey"
    /\ coinCall.before.variant = "incoming"
    /\ FromSecretKey(coinCall.privkey) # coinCall.before.other_pubkey
    /\ Fails(coinCall.result, "not correct privkey")
    /\ coin = coinCall.before

\* C9: on a WatchOnlySwapCoin verify_contract_tx_sender_sig accepts exactly
\* the signatures over the contract transaction made with the key of
\* receiver_pubkey, verify_contract_tx_receiver_sig exactly those made with
\* the key of sender_pubkey; a signature of the sender's key is rejected by
\* verify_contract_tx_sender_sig when the two keys differ.
C9_WatchOnlyRolesSwapped ==
    coin.variant = "watchonly" =>
        /\ coinCall.op = "verify_sender_sig"
           => /\ coinCall.result = MadeOverContractTxBy(coin, coinCall.sig, coin.receiver_pubkey)
              /\ (/\ MadeOverContractTxBy(coin, coinCall.sig, coin.sender_pubkey)
                  /\ coin.sender_pubkey # coin.receiver_pubkey)
                 => coinCall.result = FALSE
        /\ coinCall.op = "verify_receiver_sig"
           => coinCall.result = MadeOverContractTxBy(coin, coinCall.sig, coin.sender_pubkey)

\* the sender's own signature is not what verify_contract_tx_sender_sig takes
C9_Witness ==
    /\ coin.variant = "watchonly"
    /\ coin.sender_pubkey # coin.receiver_pubkey
    /\ coinCall.op = "verify_sender_sig"
    /\ MadeOverContractTxBy(coin, coinCall.sig, coin.sender_pubkey)
    /\ coinCall.result = FALSE

----------------------------------------------------------------------------
(* The claim about the contract redeemscript.                              *)

\* C10: for every hashlock key, timelock key, 20-byte hash value H and
\* locktime L in [1, 2^16), the script made by create_contract_redeemscript
\* is read back: read_hashvalue_from_contract gives H,
\* read_locktime_from_contract gives L, read_hashlock_pubkey_from_contract
\* the hashlock key and read_timelock_pubkey_from_contract the timelock key.
C10_ContractRoundTrip ==
    (codecOut.done /\ codecIn.locktime >= 1) =>
        /\ codecOut.hashvalue.ok /\ codecOut.hashvalue.val = codecIn.hashvalue
        /\ codecOut.locktime.ok /\ codecOut.locktime.val = codecIn.locktime
        /\ codecOut.hashlock_pubkey.ok
        /\ codecOut.hashlock_pubkey.val = codecIn.pub_hashlock
        /\ codecOut.timelock_pubkey.ok
        /\ codecOut.timelock_pubkey.val = codecIn.pub_timelock

\* a locktime of the 3-byte range, pushed as three bytes, is read back, with
\* keys that differ
C10_Witness ==
    /\ codecOut.done
    /\ codecIn.locktime >= 32768
    /\ codecIn.pub_hashlock # codecIn.pub_timelock
    /\ codecOut.script[100] = 3
    /\ codecOut.locktime.ok /\ codecOut.locktime.val = codecIn.locktime
    /\ codecOut.hashlock_pubkey.ok /\ codecOut.hashlock_pubkey.val = codecIn.pub_hashlock

----------------------------------------------------------------------------
(* The claims about the functions of contracts.rs.                         *)

\* the number a push of 1 or 2 bytes holds, little-endian
LittleEndian(data) == IF Len(data) = 1 THEN data[1] ELSE data[1] + 256 * data[2]

\* C11: read_locktime_from_contract returns N whether the 13th instruction
\* is OP_PUSHNUM_N (N in 1..16) or a push of 1 or 2 bytes holding N
\* little-endian, and None when that instruction is neither a PUSHNUM of a
\* value a u16 holds nor a push of 1 to 3 bytes: an empty push, a longer push,
\* another opcode, OP_PUSHNUM_NEG1, or a script of fewer than 13 instructions.
C11_LocktimeEncodings ==
    Done("read_locktime_from_contract") =>
        LET ins == fnCall.args.instruction
            pushes == ins.kind \in {"push", "pushdata1"}
        IN /\ (ins.kind = "op" /\ ins.code \in OP_PUSHNUM_1..OP_PUSHNUM_16)
              => /\ fnCall.result.ok
                 /\ fnCall.result.val = ins.code - OP_PUSHNUM_1 + 1
           /\ (pushes /\ Len(ins.data) \in {1, 2})
              => /\ fnCall.result.ok
                 /\ fnCall.result.val = LittleEndian(ins.data)
           /\ (pushes /\ Len(ins.data) = 3) => fnCall.result.ok
           /\ (\/ ins.kind = "op" /\ ins.code \notin OP_PUSHNUM_1..OP_PUSHNUM_16
               \/ pushes /\ Len(ins.data) \notin {1, 2, 3}
               \/ ins.kind \in {"cut", "none"})
              => fnCall.result = None

\* the number 16 pushed as two bytes is read as OP_PUSHNUM_16 is
C11_Witness ==
    /\ Done("read_locktime_from_contract")
    /\ fnCall.args.instruction.kind = "push"
    /\ fnCall.args.instruction.data = <<16, 0>>
    /\ fnCall.result.ok /\ fnCall.result.val = 16

\* the last byte a parser reads, and where it reads the keys (first byte, last
\* byte, counted from 1)
LastByteRead(parser) ==
    CASE parser = "read_hashvalue_from_contract" -> 24
      [] parser = "read_hashlock_pubkey_from_contract" -> 60
      [] parser = "read_timelock_pubkey_from_contract" -> 98
      [] OTHER -> 69
KeySlots(parser) ==
    CASE parser = "read_hashvalue_from_contract" -> {}
      [] parser = "read_hashlock_pubkey_from_contract" -> {<<28, 60>>}
      [] parser = "read_timelock_pubkey_from_contract" -> {<<66, 98>>}
      [] OTHER -> {<<3, 35>>, <<37, 69>>}

\* C12: every parser that reads at fixed offsets returns a failure value, and
\* does not abort, when the script is shorter than the offsets it reads or
\* the bytes of a key are no valid compressed point.
C12_ParsersFailWithoutAbort ==
    \A parser \in {"read_hashvalue_from_contract", "read_hashlock_pubkey_from_contract",
                   "read_timelock_pubkey_from_contract",
                   "read_pubkeys_from_multisig_redeemscript"} :
        (/\ Done(parser)
         /\ \/ Len(fnCall.args.redeemscript) < LastByteRead(parser)
            \/ \E slot \in KeySlots(parser) :
                  ~PublicKeyFromSlice(SubSeq(fnCall.args.redeemscript, slot[1], slot[2])).ok)
        => /\ fnCall.result # Panic
           /\ ~fnCall.result.ok

\* C13: for every private key d and nonce n,
\* calculate_maker_pubkey_from_nonce(d * G, n) is the public key of d + n as
\* add_assign computes it; both fail, and give no key, when d + n is zero
\* (the sum of the points is the point at infinity).
C13_TweakHomomorphism ==
    Done("calculate_maker_pubkey_from_nonce") =>
        IF (fnCall.args.privkey + fnCall.args.nonce) % CurveOrder = 0
        THEN ~fnCall.result.pubkey.ok /\ ~fnCall.result.privkey.ok
        ELSE /\ fnCall.result.pubkey.ok /\ fnCall.result.privkey.ok
             /\ fnCall.result.privkey.val \in SecretKeys
             /\ fnCall.result.pubkey.val = FromSecretKey(fnCall.result.privkey.val)

\* a key and a nonce whose sum passes the order of the group
C13_Witness ==
    /\ Done("calculate_maker_pubkey_from_nonce")
    /\ fnCall.args.privkey + fnCall.args.nonce > CurveOrder
    /\ fnCall.args.privkey # fnCall.args.nonce
    /\ fnCall.result.pubkey.ok
    /\ fnCall.result.pubkey.val = FromSecretKey(fnCall.result.privkey.val)

\* C14: create_senders_contract_tx and create_receivers_contract_tx return the
\* same for the same arguments; the transaction they return has version 2,
\* lock_time 0, one input that spends the given outpoint with sequence 0, an
\* empty script_sig and an empty witness, and one output that pays the P2WSH
\* of the contract redeemscript, of value input_value - 1000 as u64 computes
\* it; it passes validate_contract_tx for that outpoint and redeemscript.  A
\* transaction is returned for every input_value of 1000 or more.
C14_ContractTxShape ==
    Done("create_contract_tx") =>
        LET a == fnCall.args
            made == fnCall.result.senders
            tx == made.val
        IN /\ fnCall.result.receivers = made
           /\ a.input_value >= 1000 => made.ok
           /\ made.ok =>
                /\ tx.version = 2 /\ tx.lock_time = 0
                /\ Len(tx.input) = 1 /\ Len(tx.output) = 1
                /\ tx.input[1].previous_output = a.input
                /\ tx.input[1].sequence = 0
                /\ tx.input[1].script_sig = <<>> /\ tx.input[1].witness = <<>>
                /\ tx.output[1].script_pubkey
                       = redeemscript_to_scriptpubkey(a.contract_redeemscript)
                /\ tx.output[1].value = (a.input_value - 1000) % U64Modulus
                /\ validate_contract_tx(tx, Some(a.input), a.contract_redeemscript) = Ok(TRUE)

\* the funding value of the tests, less the fee
C14_Witness ==
    /\ Done("create_contract_tx")
    /\ fnCall.args.input_value = FundingValue
    /\ fnCall.result.senders.ok
    /\ fnCall.result.senders.val.output[1].value = FundingValue - 1000
    /\ fnCall.result.receivers = fnCall.result.senders

\* the checks of validate_contract_tx, as the claim words them
SpendsOutpoint(tx, funding_outpoint) ==
    funding_outpoint = None \/ tx.input[1].previous_output = funding_outpoint.val
PaysContract(tx, contract_redeemscript) ==
    tx.output[1].script_pubkey = <<OP_PUSHBYTES_0, 32>> \o WScriptHash(contract_redeemscript)

\* C17: validate_contract_tx returns Ok exactly when the transaction has one
\* input and one output, the input spends the funding outpoint (not looked at
\* when none is given) and the output pays the P2WSH of the contract
\* redeemscript; otherwise it returns the error of the first of these checks
\* that fails, in this order.
C17_ValidateContractTx ==
    Done("validate_contract_tx") =>
        LET tx == fnCall.args.receivers_contract_tx
            fo == fnCall.args.funding_outpoint
            cs == fnCall.args.contract_redeemscript
        IN /\ fnCall.result.ok <=>
                  HasOneInOneOut(tx) /\ SpendsOutpoint(tx, fo) /\ PaysContract(tx, cs)
           /\ ~HasOneInOneOut(tx) =>
                  Fails(fnCall.result, "invalid number of inputs or outputs")
           /\ HasOneInOneOut(tx) /\ ~SpendsOutpoint(tx, fo) =>
                  Fails(fnCall.result, "not spending the funding outpoint")
           /\ HasOneInOneOut(tx) /\ SpendsOutpoint(tx, fo) /\ ~PaysContract(tx, cs) =>
                  Fails(fnCall.result, "doesnt pay to requested contract")

\* another outpoint and another script: the outpoint is reported
C17_Witness ==
    /\ Done("validate_contract_tx")
    /\ HasOneInOneOut(fnCall.args.receivers_contract_tx)
    /\ ~SpendsOutpoint(fnCall.args.receivers_contract_tx, fnCall.args.funding_outpoint)
    /\ ~PaysContract(fnCall.args.receivers_contract_tx, fnCall.args.contract_redeemscript)
    /\ Fails(fnCall.result, "not spending the funding outpoint")

\* C15: verify_contract_tx_sig accepts the signature that sign_contract_tx made
\* exactly when it is given the transaction, the redeemscript and the amount
\* that were signed and the public key of the private key that signed: it
\* rejects when any of the three differs or the public key is another's.
C15_SignatureBinds ==
    Done("verify_contract_tx_sig") =>
        LET a == fnCall.args
        IN /\ fnCall.result.sig.ok
           /\ fnCall.result.accepted <=>
                /\ a.checked.contract_tx = a.signed.contract_tx
                /\ a.checked.multisig_redeemscript = a.signed.multisig_redeemscript
                /\ a.checked.funding_amount = a.signed.funding_amount
                /\ a.pubkey = FromSecretKey(a.privkey)

\* the signer's key, the same transaction and script, another amount
C15_Witness ==
    /\ Done("verify_contract_tx_sig")
    /\ fnCall.args.pubkey = FromSecretKey(fnCall.args.privkey)
    /\ fnCall.args.checked.contract_tx = fnCall.args.signed.contract_tx
    /\ fnCall.args.checked.multisig_redeemscript = fnCall.args.signed.multisig_redeemscript
    /\ fnCall.args.checked.funding_amount # fnCall.args.signed.funding_amount
    /\ ~fnCall.result.accepted

\* the positions of the outputs that pay the P2WSH of the script
PayingOutputs(tx, redeemscript) ==
    {i \in 1..Len(tx.output) :
        tx.output[i].script_pubkey = <<OP_PUSHBYTES_0, 32>> \o WScriptHash(redeemscript)}

\* C16: when exactly one output of the funding transaction pays the P2WSH of
\* the multisig redeemscript, find_funding_output returns the index of that
\* output, counted from zero, with the output, wherever it stands; when no
\* output pays the script it returns None.
C16_FundingOutputFound ==
    Done("find_funding_output") =>
        LET tx == fnCall.args.funding_tx
            paying == PayingOutputs(tx, fnCall.args.multisig_redeemscript)
        IN /\ paying = {} => fnCall.result = None
           /\ \A i \in paying :
                  paying = {i} => fnCall.result = Some(<<i - 1, tx.output[i]>>)

\* the one paying output is the last of three
C16_Witness ==
    /\ Done("find_funding_output")
    /\ PayingOutputs(fnCall.args.funding_tx, fnCall.args.multisig_redeemscript) = {3}
    /\ fnCall.result = Some(<<2, fnCall.args.funding_tx.output[3]>>)

\* the arguments of a fee no step of which passes the width of u64
FeeWithinU64(a) ==
    /\ (a.amount_relative_fee_ppb = 0
        \/ a.total_funding_amount <= (U64Modulus - 1) \div a.amount_relative_fee_ppb)
    /\ (a.time_relative_fee_ppb = 0
        \/ a.time_in_blocks <= (U64Modulus - 1) \div a.time_relative_fee_ppb)
    /\ a.absolute_fee_sat
         + (a.total_funding_amount * a.amount_relative_fee_ppb) \div 1000000000
         + (a.time_in_blocks * a.time_relative_fee_ppb) \div 1000000000 < U64Modulus

\* C18: where no step passes the width of u64, calculate_coinswap_fee is
\* absolute_fee_sat + floor(total_funding_amount * amount_relative_fee_ppb / 10^9)
\* + floor(time_in_blocks * time_relative_fee_ppb / 10^9), each quotient
\* truncated before the sum: a product below 10^9 adds nothing.
C18_FeeTruncatedPerTerm ==
    Done("calculate_coinswap_fee") /\ FeeWithinU64(fnCall.args) =>
        LET a == fnCall.args
            amount_product == a.total_funding_amount * a.amount_relative_fee_ppb
            time_product == a.time_in_blocks * a.time_relative_fee_ppb
        IN /\ fnCall.result = Ok(a.absolute_fee_sat + amount_product \div 1000000000
                                                    + time_product \div 1000000000)
           /\ amount_product < 1000000000 /\ time_product < 1000000000 =>
                  fnCall.result = Ok(a.absolute_fee_sat)

\* two products below 10^9 that together pass it: the fee is the absolute fee
C18_Witness ==
    /\ Done("calculate_coinswap_fee")
    /\ FeeWithinU64(fnCall.args)
    /\ fnCall.args.total_funding_amount * fnCall.args.amount_relative_fee_ppb < 1000000000
    /\ fnCall.args.time_in_blocks * fnCall.args.time_relative_fee_ppb < 1000000000
    /\ fnCall.args.total_funding_amount * fnCall.args.amount_relative_fee_ppb
         + fnCall.args.time_in_blocks * fnCall.args.time_relative_fee_ppb >= 1000000000
    /\ fnCall.result = Ok(fnCall.args.absolute_fee_sat)

----------------------------------------------------------------------------
(* The claims about offerbook_sync.rs.                                     *)

\* download_maker_offer has returned in task t
HasReturned(t) == download[t].pc \in {"send", "done"}

\* C19: a download task makes at most FIRST_CONNECT_ATTEMPTS + 1 attempts,
\* whether they end in an error or at the deadline; it returns None only after
\* that many attempts have all failed, and once an attempt has succeeded it has
\* returned the offer with the address it was given and makes no other attempt.
C19_BoundedRetries ==
    \A t \in DOMAIN download :
        /\ download[t].attempts <= FIRST_CONNECT_ATTEMPTS + 1
        /\ download[t].last = "ok" =>
               /\ HasReturned(t)
               /\ download[t].outcome.ok
               /\ download[t].outcome.val.address = offerbook.maker_addresses[t]
        /\ HasReturned(t) /\ download[t].last # "ok" =>
               /\ download[t].outcome = None
               /\ download[t].attempts = FIRST_CONNECT_ATTEMPTS + 1
        /\ ~HasReturned(t) /\ download[t].pc # "attempt" =>
               download[t].attempts <= FIRST_CONNECT_ATTEMPTS

\* a task gave up at the deadline of its last attempt, another got the offer
\* at its last attempt
C19_Witness ==
    \E t, u \in DOMAIN download :
        /\ download[t].pc = "done" /\ download[t].last = "timeout"
        /\ download[t].outcome = None
        /\ download[t].attempts = FIRST_CONNECT_ATTEMPTS + 1
        /\ download[u].pc = "done" /\ download[u].last = "ok"
        /\ download[u].attempts = FIRST_CONNECT_ATTEMPTS + 1

\* how often entry is in the result, and how many tasks downloaded it
TimesInResult(entry) ==
    Cardinality({i \in DOMAIN offerbook.result : offerbook.result[i] = entry})
TimesDownloaded(entry) ==
    Cardinality({t \in DOMAIN download : HasReturned(t) /\ download[t].outcome = Some(entry)})

\* C20: the result never holds an entry more often than tasks have downloaded
\* it and never more entries than there are addresses; when
\* sync_offerbook_with_addresses returns, every task has returned and the
\* result holds each downloaded entry once for each task that downloaded it,
\* and nothing for the tasks that gave up, whatever the order of the tasks.
C20_OneEntryPerOffer ==
    LET Entries == [offer : {"offer"}, address : {"maker1", "maker2"}]
    IN /\ Len(offerbook.result) <= Len(offerbook.maker_addresses)
       /\ \A i \in DOMAIN offerbook.result : offerbook.result[i] \in Entries
       /\ \A e \in Entries : TimesInResult(e) <= TimesDownloaded(e)
       /\ offerbook.pc = "returned" =>
              /\ Len(download) = Len(offerbook.maker_addresses)
              /\ \A t \in DOMAIN download : download[t].pc = "done"
              /\ \A e \in Entries : TimesInResult(e) = TimesDownloaded(e)

\* returned with the offer of the second address while the first gave up
C20_Witness ==
    /\ offerbook.pc = "returned"
    /\ Len(offerbook.maker_addresses) = 2
    /\ download[1].outcome = None
    /\ download[2].outcome.ok
    /\ offerbook.result = <<download[2].outcome.val>>

----------------------------------------------------------------------------
(* Further claims about the functions of contracts.rs.                     *)

\* C25: when the locktime is pushed as 2 or as 3 bytes,
\* read_locktime_from_contract returns the little-endian number of the first
\* two bytes, so that the third byte has no part in what is returned.
C25_ThirdByteIgnored ==
    Done("read_locktime_from_contract") =>
        LET ins == fnCall.args.instruction
        IN (ins.kind \in {"push", "pushdata1"} /\ Len(ins.data) \in {2, 3}) =>
               fnCall.result = Some(ins.data[1] + 256 * ins.data[2])

\* three bytes whose third is not zero, read as the first two
C25_Witness ==
    /\ Done("read_locktime_from_contract")
    /\ fnCall.args.instruction.kind = "push"
    /\ fnCall.args.instruction.data = <<255, 1, 1>>
    /\ fnCall.result = Some(511)

\* C28: for every input_value, those below 1000 among them,
\* create_senders_contract_tx returns a transaction whose output is worth less
\* than input_value.
C28_OutputBelowInput ==
    Done("create_contract_tx") =>
        /\ fnCall.result.senders.ok
        /\ fnCall.result.senders.val.output[1].value < fnCall.args.input_value

\* C29: for all arguments calculate_coinswap_fee returns a fee that is at
\* least absolute_fee_sat and that is not smaller than the fee of a smaller
\* total_funding_amount or a smaller time_in_blocks: no product and no sum
\* passes the width of u64.
C29_FeeNeverWraps ==
    Done("calculate_coinswap_fee") =>
        LET a == fnCall.args
            fee_of(amount, time) ==
                calculate_coinswap_fee(a.absolute_fee_sat, a.amount_relative_fee_ppb,
                    a.time_relative_fee_ppb, amount, time, a.overflow_checks)
        IN /\ fnCall.result.ok
           /\ fnCall.result.val >= a.absolute_fee_sat
           /\ \A amount \in {0, 30000}, time \in {0, 10} :
                  amount <= a.total_funding_amount /\ time <= a.time_in_blocks =>
                      /\ fee_of(amount, time).ok
                      /\ fee_of(amount, time).val <= fnCall.result.val

----------------------------------------------------------------------------
(* Further claims about the swap-coins.                                    *)

\* C24: after apply_privkey has returned Ok on an Incoming or an Outgoing
\* swap-coin, the coin holds the applied key as its other_privkey.
C24_PrivkeyStored ==
    (/\ coinCall.op = "apply_privkey"
     /\ coinCall.before.variant \in {"incoming", "outgoing"}
     /\ coinCall.result.ok)
    => /\ "other_privkey" \in DOMAIN coin
       /\ coin.other_privkey = Some(coinCall.privkey)

----------------------------------------------------------------------------
(* Further claims about offerbook_sync.rs.                                 *)

\* C26: an attempt of download_maker_offer that fails, by an error or at the
\* deadline, and is followed by a retry is followed first by the sleep of
\* FIRST_CONNECT_SLEEP_DELAY_SEC: the task leaves a failed attempt for the
\* sleep or for its return, never straight for the next attempt.
C26_SleepBeforeRetry ==
    [][\A t \in DOMAIN download :
          (download[t].pc = "attempt" /\ download'[t].pc # "attempt") =>
              \/ download'[t].last = "ok"
              \/ download'[t].pc \in {"sleep", "send"}]_vars

----------------------------------------------------------------------------
(* Further claims about the maker's handlers.                              *)

\* C30: verify_proof_of_funding returns Ok only if the output of the funding
\* transaction at funding_output_index, as the node reports it, pays the
\* P2WSH of the multisig redeemscript of the proof.
C30_FundingOutputPaysMultisig ==
    (IsProof /\ call.result.ok) =>
        /\ call.req.tx_out.kind = "some"
        /\ call.req.tx_out.script_pub_key
             = <<OP_PUSHBYTES_0, 32>> \o WScriptHash(call.req.multisig_redeemscript)

\* C23: a call of validate_and_sign_senders_contract_tx that returns an error
\* leaves the cache of sender contracts as it was before the call.
C23_CacheOnlyOnSignature ==
    (IsSign /\ ~call.result.ok) => cache = call.before

\* C27: sync_offerbook_with_addresses returns in the end, for no address and
\* for more addresses than the channel holds; when it returns every task has
\* sent its one message and the caller has received as many messages as there
\* are addresses, so that the channel is empty and no task waits to send.
C27_OfferbookReturns ==
    /\ <>(offerbook.pc = "returned")
    /\ [](offerbook.pc = "returned" =>
            /\ offerbook.received = Len(offerbook.maker_addresses)
            /\ Len(download) = Len(offerbook.maker_addresses)
            /\ \A t \in DOMAIN download : download[t].pc = "done"
            /\ offerbook.channel = <<>>)
    /\ [](offerbook.received + Len(offerbook.channel)
            = Cardinality({t \in DOMAIN download : download[t].pc = "done"}))

\* returned for more addresses than the channel holds
C27_Witness ==
    /\ offerbook.pc = "returned"
    /\ Len(offerbook.maker_addresses) > ChannelCapacity
    /\ offerbook.received = Len(offerbook.maker_addresses)

----------------------------------------------------------------------------
(* The claim about settings.rs.                                            *)

\* the calls of init_settings before call i that returned a record
CompletedBefore(i) ==
    {j \in 1..(i - 1) : settings.log[j].fn = "init_settings" /\ settings.log[j].result.ok}

\* C21: a call of Settings::global returns the record that the first
\* completed init_settings returned, and returns no record when none has
\* completed; a call of init_settings after a completed one fails; SETTINGS
\* holds nothing before init_settings has completed and that record ever after.
C21_SettingsSetOnce ==
    /\ \A i \in DOMAIN settings.log :
          LET this == settings.log[i]
          IN /\ (this.fn = "global" /\ CompletedBefore(i) = {}) => ~this.result.ok
             /\ \A j \in CompletedBefore(i) :
                   /\ this.fn = "global" => this.result = settings.log[j].result
                   /\ this.fn = "init_settings" => ~this.result.ok
    /\ IF CompletedBefore(Len(settings.log) + 1) = {}
       THEN settings.SETTINGS = None
       ELSE \A j \in CompletedBefore(Len(settings.log) + 1) :
               settings.SETTINGS = Some(settings.log[j].result.val)

\* init_settings, a second init_settings for another datadir that fails, and
\* global that returns the record of the first
C21_Witness ==
    /\ Len(settings.log) = 3
    /\ settings.log[1].fn = "init_settings" /\ settings.log[1].result.ok
    /\ settings.log[2].fn = "init_settings" /\ settings.log[2].file # "malformed"
    /\ settings.log[2].datadir # settings.log[1].datadir
    /\ ~settings.log[2].result.ok
    /\ settings.log[3].fn = "global"
    /\ settings.log[3].result = settings.log[1].result

----------------------------------------------------------------------------
(* The claim about requests handled at the same time.                      *)

\* C22: of the SignSendersContractTx requests handled at the same time on one
\* wallet, no two that name the same funding outpoint and different contract
\* script pubkeys both obtain a signature, in whatever order their steps come:
\* one call at a time holds the wallet, and every call returns what it would
\* return, and leaves the cache as it would leave it, if it ran alone on the
\* cache it found.
C22_OneSignaturePerOutpoint ==
    /\ \A a, b \in DOMAIN handlers :
          (/\ handlers[a].pc = "done" /\ handlers[a].result.ok
           /\ handlers[b].pc = "done" /\ handlers[b].result.ok
           /\ FundingOutpointOf(handlers[a].req.senders_contract_tx)
                = FundingOutpointOf(handlers[b].req.senders_contract_tx))
          => ContractSpkOf(handlers[a].req.senders_contract_tx)
               = ContractSpkOf(handlers[b].req.senders_contract_tx)
    /\ \A a, b \in DOMAIN handlers :
          (handlers[a].pc \in {"lookup", "insert"} /\ handlers[b].pc \in {"lookup", "insert"})
          => a = b
    /\ \A t \in DOMAIN handlers :
          handlers[t].pc = "done" =>
              Outcome(handlers[t].result, handlers[t].after)
                  = validate_and_sign_senders_contract_tx(handlers[t].req, handlers[t].before)

\* two requests for one outpoint and two contracts: the first has a
\* signature, the second is rejected
C22_Witness ==
    /\ Len(handlers) >= 2
    /\ handlers[1].pc = "done" /\ handlers[2].pc = "done"
    /\ FundingOutpointOf(handlers[1].req.senders_contract_tx)
         = FundingOutpointOf(handlers[2].req.senders_contract_tx)
    /\ ContractSpkOf(handlers[1].req.senders_contract_tx)
         # ContractSpkOf(handlers[2].req.senders_contract_tx)
    /\ handlers[2].result.ok
    /\ Fails(handlers[1].result, "taker attempting multiple contract attack, rejecting")

=============================================================================
